---- MODULE Spec2Model ----
(***************************************************************************)
(* Conversation orchestration core of the coaching backend:                *)
(* backend/session_manager.py (SessionManager), backend/coaching_engine.py *)
(* (CoachingEngine, BargeInDetector) and the inference results of          *)
(* backend/gemini_client.py that the engine branches on.                   *)
(*                                                                         *)
(* Text is a sequence of one-character strings, so that strip, lower,      *)
(* split, count and the `in` test are computed as Python computes them.    *)
(* A canned sentence of the engine is a one-element sequence holding the   *)
(* sentence.  Time is in seconds.  A turn is one atomic step.              *)
(***************************************************************************)
EXTENDS Integers, Sequences, FiniteSets, TLC

\* ------------------------------------------------------------------ bounds
MaxStep == 2
MaxHist == 3
MaxTicks == 1
MaxAudio == 1
MaxBegin == 1
MaxEnd == 1
MaxTurns == 2
ScriptTurns == 15
SpeakingScriptTurns == 9
MaxNormLen == 4
MaxFillerLen == 6
MaxPrefill == 2
MaxHistOps == 3
MaxChannelTurns == 1
MaxStoreOps == 3

\* ------------------------------------------------------- program constants
MaxQuestions == 10
MaxMinutes == 15
HintTimeout == 90
CompressInteractions == 100
CompressHistory == 50
CompressMin == 30
KeepRecent == 20
FillerLimit == 3
ShortAnswer == 30
SpeakingMinutes == 15
NoTime == 0 - 1

\* ------------------------------------------------------------ text helpers
Str(s) == << s >>

Min2(a, b) == IF a < b THEN a ELSE b

Max2(a, b) == IF a > b THEN a ELSE b

IsSpace(c) == c \in {" ", "\n", "\t"}

\* s[i..j] as Python s[i-1:j]
Slice(s, i, j) == IF j < i THEN << >> ELSE SubSeq(s, i, j)

StartsWith(s, p) == Len(p) <= Len(s) /\ SubSeq(s, 1, Len(p)) = p

EndsWith(s, p) == Len(p) <= Len(s) /\ SubSeq(s, Len(s) - Len(p) + 1, Len(s)) = p

\* first position >= from at which sub occurs in s, 0 when there is none
FindFrom(s, sub, from) ==
    LET hits == { i \in from..(Len(s) - Len(sub) + 1) : SubSeq(s, i, i + Len(sub) - 1) = sub }
    IN IF hits = {} THEN 0 ELSE CHOOSE i \in hits : \A j \in hits : i <= j

\* Python: sub in s
Contains(s, sub) == FindFrom(s, sub, 1) # 0

RECURSIVE CountFrom(_, _, _)
CountFrom(s, sub, from) ==
    LET i == FindFrom(s, sub, from)
    IN IF i = 0 THEN 0 ELSE 1 + CountFrom(s, sub, i + Len(sub))

\* Python: s.count(sub), non-overlapping occurrences, sub non-empty
Count(s, sub) == CountFrom(s, sub, 1)

\* Python: s.strip()
Strip(s) ==
    LET keep == { i \in 1..Len(s) : ~IsSpace(s[i]) }
    IN IF keep = {} THEN << >>
       ELSE LET lo == CHOOSE i \in keep : \A j \in keep : i <= j
                hi == CHOOSE i \in keep : \A j \in keep : i >= j
            IN SubSeq(s, lo, hi)

LowerChar(c) ==
    CASE c = "B" -> "b" [] c = "E" -> "e" [] c = "G" -> "g" [] c = "I" -> "i"
      [] c = "N" -> "n" [] c = "T" -> "t" [] c = "R" -> "r" [] c = "V" -> "v"
      [] c = "W" -> "w" [] c = "P" -> "p" [] c = "U" -> "u" [] c = "L" -> "l"
      [] c = "C" -> "c" [] c = "S" -> "s" [] c = "A" -> "a" [] c = "K" -> "k"
      [] c = "D" -> "d" [] c = "Y" -> "y" [] c = "O" -> "o" [] c = "M" -> "m"
      [] c = "H" -> "h"
      [] OTHER -> c

\* Python: s.lower()
Lower(s) == [ i \in 1..Len(s) |-> LowerChar(s[i]) ]

\* Python: s.split(sep, 1)[0] and s.split(sep, 1)[1] when sep occurs in s
SplitHead(s, sep) == LET i == FindFrom(s, sep, 1) IN IF i = 0 THEN s ELSE Slice(s, 1, i - 1)

SplitTail(s, sep) == LET i == FindFrom(s, sep, 1) IN IF i = 0 THEN << >> ELSE Slice(s, i + Len(sep), Len(s))

RECURSIVE SumCounts(_, _)
SumCounts(s, words) ==
    IF words = << >> THEN 0 ELSE Count(s, Head(words)) + SumCounts(s, Tail(words))

\* the least element of a non-empty set of positions
First(S) == CHOOSE k \in S : \A j \in S : k <= j

RECURSIVE Collapse(_)

\* a stripped text t cut at its white space at position i (0: there is none)
CollapseAt(t, i) ==
    IF i = 0 THEN t
    ELSE Slice(t, 1, i - 1) \o << " " >> \o Collapse(Slice(t, i + 1, Len(t)))

\* the position of the first white space of t, 0 when there is none
FirstSpace(t, ws) == IF ws = {} THEN 0 ELSE First(ws)

CollapseStripped(t) == CollapseAt(t, FirstSpace(t, { i \in 1..Len(t) : IsSpace(t[i]) }))

\* Python: " ".join(s.strip().split())
Collapse(s) == CollapseStripped(Strip(s))

\* pc, arg, res: the position, the input and the result of the operation
\* under way: a pure function, a channel's handler (pc the channel's position,
\* arg the last message), the store (arg the files' modification times, res
\* the last get_session), a report (res), two sessions' turns (pc, arg per id)
\* active_sessions, disk: SessionManager.active_sessions and the session files
\* now: the clock; out: the response of the last handled event
\* ev: the last handled event; used: how many bounded inputs were consumed
\* maxStep: the largest step of any kind-step response returned so far
VARIABLES pc, arg, res, active_sessions, disk, now, out, ev, used, maxStep

vars == << pc, arg, res, active_sessions, disk, now, out, ev, used, maxStep >>

\* ------------------------------------------- interview question normalizer
\* the text "Tell me about a project you worked on recently."
EmptyQuestionDefault ==
    << "T", "e", "l", "l", " ", "m", "e", " ", "a", "b", "o", "u",
       "t", " ", "a", " ", "p", "r", "o", "j", "e", "c", "t", " ",
       "y", "o", "u", " ", "w", "o", "r", "k", "e", "d", " ", "o",
       "n", " ", "r", "e", "c", "e", "n", "t", "l", "y", "." >>

Dividers == << << ".", " " >>, << "\n" >>, << ";", " " >> >>

\* return f"{first}?" when the first clause is not empty, else what follows
FirstClause(first, otherwise) == IF first # << >> THEN first \o << "?" >> ELSE otherwise

\* the first of the dividers, in their order, that occurs in normalized
FirstDivider(present) == IF present = {} THEN 0 ELSE First(present)

\* normalized.split(divider, 1)[0].strip() for that divider
HeadAtDivider(normalized, d) ==
    IF d = 0 THEN << >> ELSE Strip(SplitHead(normalized, Dividers[d]))

\* _normalize_interview_question from its second line on
NormalizeCollapsed(normalized) ==
    IF normalized = << >> THEN EmptyQuestionDefault
    ELSE IF Contains(normalized, << "?" >>)
    THEN FirstClause(Strip(SplitHead(normalized, << "?" >>)), normalized)
    ELSE FirstClause(
           HeadAtDivider(normalized,
                         FirstDivider({ d \in 1..Len(Dividers) : Contains(normalized, Dividers[d]) })),
           IF ~EndsWith(normalized, << "?" >>) THEN normalized \o << "?" >> ELSE normalized)

\* CoachingEngine._normalize_interview_question
_normalize_interview_question(question) == NormalizeCollapsed(Collapse(question))

NormAlphabet == {"a", "?", " ", ".", ";"}

RECURSIVE SeqsUpTo(_, _)
SeqsUpTo(S, n) ==
    IF n = 0 THEN { << >> }
    ELSE LET shorter == SeqsUpTo(S, n - 1)
         IN shorter \cup { Append(t, c) : t \in { u \in shorter : Len(u) = n - 1 }, c \in S }

NormInputs == SeqsUpTo(NormAlphabet, MaxNormLen)

\* ------------------------------------------------------ barge-in detector
FillerWords ==
    << << "u", "m" >>, << "u", "h" >>, << "l", "i", "k", "e" >>,
       << "y", "o", "u", " ", "k", "n", "o", "w" >>,
       << "b", "a", "s", "i", "c", "a", "l", "l", "y" >>,
       << "l", "i", "t", "e", "r", "a", "l", "l", "y" >> >>

NoBiometric == [present |-> FALSE, stress_level |-> "none", gaze_direction |-> << 0, 0, 0 >>]

NoTrigger == [trigger_type |-> "none", fired |-> 0, triggers |-> << >>]

Abs(x) == IF x < 0 THEN 0 - x ELSE x

\* gaze components and sensitivity are in tenths: 0.5 is 5, sensitivity 0.7 is 7
GazeLimit == 5

\* max(1, int(3 * (1 - sensitivity)))
BargeThreshold(sensitivity) == Max2(1, (3 * (10 - sensitivity)) \div 10)

RaisedTriggers(transcript, biometric_data) ==
    LET filler_count == SumCounts(Lower(transcript), FillerWords)
        t1 == IF filler_count >= FillerLimit THEN << "filler_words" >> ELSE << >>
        t2 == IF biometric_data.present /\ biometric_data.stress_level = "high"
              THEN << "stress_spike" >> ELSE << >>
        gaze == biometric_data.gaze_direction
        t3 == IF biometric_data.present /\ (Abs(gaze[1]) > GazeLimit \/ Abs(gaze[2]) > GazeLimit)
              THEN << "gaze_away" >> ELSE << >>
    IN t1 \o t2 \o t3

should_trigger_strict(transcript, biometric_data, sensitivity) ==
    LET triggers == RaisedTriggers(transcript, biometric_data)
    IN IF Len(triggers) > BargeThreshold(sensitivity)
       THEN [trigger_type |-> IF Len(triggers) > 1 THEN "combined" ELSE triggers[1],
             fired |-> Len(triggers), triggers |-> triggers]
       ELSE NoTrigger

\* BargeInDetector.should_trigger; fired is the numerator of confidence
should_trigger(transcript, biometric_data, sensitivity) ==
    LET triggers == RaisedTriggers(transcript, biometric_data)
    IN IF Len(triggers) >= BargeThreshold(sensitivity)
       THEN [trigger_type |-> IF Len(triggers) > 1 THEN "combined" ELSE triggers[1],
             fired |-> Len(triggers), triggers |-> triggers]
       ELSE NoTrigger

FillerAlphabet == {"u", "m", "h"}

Frames ==
    { [present |-> TRUE, stress_level |-> s, gaze_direction |-> g] :
        s \in {"high", "low"}, g \in { << 0, 0, 0 >>, << 6, 0, 0 >>, << 0, 0 - 6, 0 >>, << 5, 0 - 5, 0 >> } }

Sensitivities == {0, 5, 7, 10}

BargeInputs ==
    { [transcript |-> t, biometric_data |-> b, sensitivity |-> s] :
        t \in SeqsUpTo(FillerAlphabet, MaxFillerLen), b \in Frames \cup {NoBiometric}, s \in Sensitivities }

\* ---------------------------------------------------------- session store
SessionIds == {"s1"}

Modes == {"tutoring", "interview", "public_speaking", "other"}

NewInterviewState ==
    [stage |-> "init", role |-> << >>, job_description |-> << >>, resume |-> << >>,
     started |-> FALSE, start_time |-> NoTime, question_count |-> 0,
     max_questions |-> MaxQuestions, max_minutes |-> MaxMinutes,
     current_question |-> << >>, current_section |-> "", hint_used |-> FALSE,
     last_question_time |-> NoTime]

NewPublicSpeakingState ==
    [stage |-> "init", speaking_type |-> << >>, topic |-> << >>, script |-> << >>,
     started |-> FALSE, start_time |-> NoTime, main_speech_start |-> NoTime,
     followup_index |-> 0, followup_total |-> 3,
     word_count |-> 0, filler_count |-> 0, pause_count |-> 0]

\* biometric_baseline None
NoBaseline == [present |-> FALSE, resting_heart_rate |-> << >>, stress_threshold |-> << >>]

\* SessionManager.create_session: the record of a new session
NewSession(mode, t) ==
    [mode |-> mode, start_time |-> t, end_time |-> NoTime,
     context_history |-> << >>, biometric_timeline |-> << >>, interactions |-> << >>,
     barge_in_sensitivity |-> 7, duration |-> 0, tutoring_step |-> 0,
     interview_state |-> NewInterviewState,
     public_speaking_state |-> NewPublicSpeakingState,
     context_compressed |-> FALSE, biometric_baseline |-> NoBaseline]

\* an interaction; role "none" stands for a record without role/content keys,
\* an empty user/assistant for a record without that legacy key
Interaction(type, role, content) ==
    [type |-> type, role |-> role, content |-> content,
     user |-> << >>, assistant |-> << >>, interaction_count |-> 0]

LegacyInteraction(user, assistant) ==
    [type |-> "", role |-> "none", content |-> << >>,
     user |-> user, assistant |-> assistant, interaction_count |-> 0]

HistoryEntry(role, content) == [role |-> role, content |-> content]

LastN(q, n) == IF Len(q) <= n THEN q ELSE SubSeq(q, Len(q) - n + 1, Len(q))

\* a world is one session as cached (mem) and as persisted (disk)
_save_session(w) == [w EXCEPT !.disk = w.mem]

_compress_context_drop(session) ==
    IF Len(session.interactions) <= CompressMin THEN session
    ELSE [session EXCEPT
            !.interactions = LastN(session.interactions, KeepRecent),
            !.context_history = LastN(session.context_history, KeepRecent),
            !.context_compressed = TRUE]

\* SessionManager._compress_context
_compress_context(session) ==
    IF Len(session.interactions) <= CompressMin THEN session
    ELSE LET summary == [type |-> "context_summary", role |-> "none", content |-> << >>,
                         user |-> << >>, assistant |-> << >>,
                         interaction_count |-> Len(session.interactions) - KeepRecent]
         IN [session EXCEPT
               !.interactions = << summary >> \o LastN(session.interactions, KeepRecent),
               !.context_compressed = TRUE]

\* the context_history entries that add_interaction derives from an interaction
HistoryEntriesOf(interaction) ==
    IF interaction.role # "none"
    THEN << HistoryEntry(interaction.role, interaction.content) >>
    ELSE (IF interaction.user # << >> THEN << HistoryEntry("user", interaction.user) >> ELSE << >>)
         \o (IF interaction.assistant # << >>
             THEN << HistoryEntry("assistant", interaction.assistant) >> ELSE << >>)

\* SessionManager.add_interaction
add_interaction(w, interaction) ==
    LET s1 == [w.mem EXCEPT
                 !.interactions = Append(@, interaction),
                 !.context_history = @ \o HistoryEntriesOf(interaction)]
        s2 == IF Len(s1.interactions) > CompressInteractions THEN _compress_context(s1) ELSE s1
    IN _save_session([w EXCEPT !.mem = s2])

\* SessionManager.end_session
end_session(w, t) ==
    LET s1 == [w.mem EXCEPT !.end_time = t, !.duration = t - w.mem.start_time]
        s2 == IF Len(s1.context_history) > CompressHistory THEN _compress_context(s1) ELSE s1
    IN _save_session([w EXCEPT !.mem = s2])

\* SessionManager.get_latest_biometric
get_latest_biometric(session) ==
    IF session.biometric_timeline # << >>
    THEN session.biometric_timeline[Len(session.biometric_timeline)]
    ELSE NoBiometric

\* ------------------------------------------------------ inference results
\* a JSON value for "step": an integer, or anything else (absent, null, text)
IntStep(n) == [int |-> TRUE, val |-> n]

NotInt == [int |-> FALSE, val |-> 0]

\* a response: the keys the engine and its callers branch on; "" is an absent key
Response(type, kind, step, voice_text, narration) ==
    [type |-> type, kind |-> kind, step |-> step, voice_text |-> voice_text,
     narration |-> narration, trigger |-> NoTrigger]

NoResponse == Response("", "", NotInt, << >>, << >>)

\* the model gave no usable answer
NoModel == [fail |-> TRUE, kind |-> "", type |-> "", step |-> NotInt]

\* what the model can answer to generate_structured_response: a failure, or a
\* JSON object with or without kind, type and an integer step
ModelOutputs ==
    { [fail |-> TRUE, kind |-> "", type |-> "", step |-> NotInt] }
    \cup { [fail |-> FALSE, kind |-> k, type |-> "", step |-> st] :
             k \in {"step", "check_in"},
             st \in {NotInt} \cup { IntStep(n) : n \in 0..(MaxStep + 1) } }
    \cup { [fail |-> FALSE, kind |-> "", type |-> t, step |-> NotInt] : t \in {"", "error"} }
    \cup { [fail |-> FALSE, kind |-> "quiz", type |-> "", step |-> NotInt] }

\* GeminiClient._fallback_response
_fallback_response(mode) ==
    IF mode = "tutoring"
    THEN Response("", "step", IntStep(1), << >>, Str("I am having trouble reaching the coaching model right now."))
    ELSE Response("coach_response", "", NotInt, Str("I am having trouble reaching the coaching model right now."), << >>)

\* GeminiClient.generate_structured_response, m the model's answer
generate_structured_response(m, mode) ==
    IF m.fail THEN _fallback_response(mode)
    ELSE Response(IF m.type = "" /\ m.kind = "" THEN "coach_response" ELSE m.type,
                  m.kind, m.step,
                  IF m.kind = "" THEN Str("voice_text") ELSE << >>,
                  IF m.kind = "" THEN << >> ELSE Str("narration"))

\* ------------------------------------------------------------- tutoring
\* a turn's result: the world after it and the response it returns
Result(w, response) == [w |-> w, response |-> response]

\* process_text, the step-monotonicity rule for kind step
EnforceStep(proposed_step, current_step) ==
    IF ~proposed_step.int \/ proposed_step.val <= current_step
    THEN current_step + 1 ELSE proposed_step.val

\* CoachingEngine.process_text for modes other than interview and
\* public_speaking, up to the call of the model: the user's interaction
process_text_begin(w, text) == add_interaction(w, Interaction("", "user", text))

\* the payload of a kind step or check_in: the step enforced, then returned
SteppedResponse(response_data, current_step) ==
    IF response_data.kind = "step"
    THEN [response_data EXCEPT !.step = IntStep(EnforceStep(@, current_step))]
    ELSE response_data

\* the branch of process_text for a payload of kind step or check_in
SteppedTurn(w1, stepped) ==
    Result(add_interaction(IF stepped.kind = "step"
                           THEN [w1 EXCEPT !.mem.tutoring_step = stepped.step.val]
                           ELSE w1,
                           Interaction("", "assistant", stepped.narration)),
           stepped)

\* process_text after the model answered, without its branch for a tutoring
\* reply that has no kind
AnsweredTurnPlain(w1, mode, current_step, response_data) ==
    IF response_data.kind \in {"step", "check_in"}
    THEN SteppedTurn(w1, SteppedResponse(response_data, current_step))
    ELSE IF response_data.type = "error"
    THEN IF mode = "tutoring"
         THEN Result(w1, Response("", "step", IntStep(1), << >>,
                                  Str("I hit a temporary issue reaching the coaching model.")))
         ELSE Result(w1, Response("coach_response", "", NotInt,
                                  Str("I hit a temporary issue reaching the coaching model."), << >>))
    ELSE Result(add_interaction(w1, Interaction("", "assistant", response_data.voice_text)),
                Response("coach_response", "", NotInt, response_data.voice_text, << >>))

\* process_text after the model answered response_data, w1 the world and
\* current_step the session's step at that point
AnsweredTurn(w1, mode, current_step, response_data) ==
    IF response_data.kind \in {"step", "check_in"}
    THEN SteppedTurn(w1, SteppedResponse(response_data, current_step))
    ELSE IF response_data.type = "error"
    THEN IF mode = "tutoring"
         THEN Result(w1, Response("", "step", IntStep(1), << >>,
                                  Str("I hit a temporary issue reaching the coaching model.")))
         ELSE Result(w1, Response("coach_response", "", NotInt,
                                  Str("I hit a temporary issue reaching the coaching model."), << >>))
    ELSE IF mode = "tutoring" /\ response_data.kind = ""
    THEN Result([w1 EXCEPT !.mem.tutoring_step = current_step + 1],
                Response("", "step", IntStep(current_step + 1), << >>, response_data.voice_text))
    ELSE Result(add_interaction(w1, Interaction("", "assistant", response_data.voice_text)),
                Response("coach_response", "", NotInt, response_data.voice_text, << >>))

\* process_text from the call of the model on; m is the model's answer
process_text_complete(w1, m) ==
    AnsweredTurn(w1, w1.mem.mode, w1.mem.tutoring_step, generate_structured_response(m, w1.mem.mode))

\* CoachingEngine.process_text for modes other than interview and
\* public_speaking; m is the model's answer
process_text_free(w, text, m) == process_text_complete(process_text_begin(w, text), m)

\* ------------------------------------------------------------- interview
BeginInterview ==
    << "B", "E", "G", "I", "N", "_", "I", "N", "T", "E", "R", "V", "I", "E", "W" >>

\* the text {"job_description":"d"}
PayloadJD ==
    << "{", "\"", "j", "o", "b", "_", "d", "e", "s", "c", "r", "i", "p", "t", "i", "o", "n",
       "\"", ":", "\"", "d", "\"", "}" >>

\* json.loads of a command payload followed by the three payload.get calls:
\* a key that is absent, or a payload that is no JSON, gives the default
PayloadOf(payload_text, role_default) ==
    IF payload_text = PayloadJD
    THEN [job_description |-> << "d" >>, resume |-> << >>, role |-> role_default]
    ELSE [job_description |-> << >>, resume |-> << >>, role |-> role_default]

YesTokens ==
    { << "y", "e", "s" >>, << "r", "e", "a", "d", "y" >>, << "y", "e", "p" >>,
      << "y", "e", "a", "h" >>, << "o", "k" >>, << "o", "k", "a", "y" >>,
      << "s", "u", "r", "e" >>, << "s", "t", "a", "r", "t" >> }

SkipTexts ==
    { << >>, << "s", "k", "i", "p" >>, << "n", "o" >>, << "n", "o", "n", "e" >>,
      << "n", "/", "a" >>, << "n", "a" >> }

\* CoachingEngine._is_yes
_is_yes(text) == \E token \in YesTokens : Contains(text, token)

\* CoachingEngine._is_skip
_is_skip(text) == text \in SkipTexts

\* CoachingEngine._interview_prompt
_interview_prompt(voice_text) == Response("coach_response", "", NotInt, voice_text, << >>)

_section_for_question_late(index) ==
    IF index < 1 THEN "warmup"
    ELSE IF index < 3 THEN "background"
    ELSE IF index < 7 THEN "technical"
    ELSE IF index < 10 THEN "behavioral"
    ELSE "wrapup"

\* CoachingEngine._section_for_question
_section_for_question(index) ==
    IF index < 1 THEN "warmup"
    ELSE IF index < 3 THEN "background"
    ELSE IF index < 7 THEN "technical"
    ELSE IF index < 9 THEN "behavioral"
    ELSE "wrapup"

\* the fallback question of _generate_interview_question; the normalizer
\* returns it unchanged (one '?', at its end)
DefaultTechnicalQuestion ==
    Str("What data structure would you use to check if a value has appeared before in a list, and why?")

\* what the model can answer to the question prompt: nothing usable, or a question
QuestionOutputs ==
    { [ok |-> FALSE, question |-> << >>], [ok |-> TRUE, question |-> << "a", "?", " ", "b", "?" >>] }

\* CoachingEngine._generate_interview_question, q the model's answer
_generate_interview_question(state, section, index, q) ==
    IF section = "warmup" THEN Str("Give me a quick overview of yourself and your background.")
    ELSE IF section = "background"
    THEN IF index = 1
         THEN Str("Tell me about a project you worked on that relates to ")
              \o (IF state.role # << >> THEN state.role ELSE Str("the role"))
              \o Str(". What problem did it solve?")
         ELSE Str("What was your personal contribution to a recent project you are proud of?")
    ELSE IF section = "behavioral"
    THEN IF index = 7 THEN Str("Tell me about a challenge you faced.") ELSE Str("How do you handle tight deadlines?")
    ELSE IF section = "wrapup" THEN Str("What questions do you have for me about the role?")
    ELSE IF q.ok /\ q.question # << >> THEN _normalize_interview_question(q.question)
    ELSE DefaultTechnicalQuestion

\* what the model can answer to the evaluation prompt
EvaluationOutputs == {"fail", "good", "partial", "weak"}

\* CoachingEngine._evaluate_interview_answer, e the model's answer
_evaluate_interview_answer(answer, e) ==
    IF e # "fail" THEN e
    ELSE IF Len(answer) < ShortAnswer THEN "weak" ELSE "partial"

_should_end_interview_late(state, t) ==
    \/ state.question_count > state.max_questions
    \/ state.start_time # NoTime /\ t - state.start_time >= state.max_minutes * 60

\* CoachingEngine._should_end_interview at time t
_should_end_interview(state, t) ==
    \/ state.question_count >= state.max_questions
    \/ state.start_time # NoTime /\ t - state.start_time >= state.max_minutes * 60

SessionEnded == Response("session_ended", "", NotInt, << >>, << >>)

\* end_session followed by generate_vibe_report, as every ending branch does
EndWithReport(w, t) == Result(end_session(w, t), SessionEnded)

SetInterviewStepped(w, state) ==
    _save_session([w EXCEPT !.mem.interview_state = state, !.mem.tutoring_step = @ + 1])

SetInterview(w, state) == _save_session([w EXCEPT !.mem.interview_state = state])

\* _ask_next_interview_question once the question is generated: the state
\* it saves and the response that surfaces the question
SurfaceQuestion(w, state, t, next_index, section, question) ==
    Result(SetInterview(w, [state EXCEPT !.question_count = next_index + 1,
                                          !.current_section = section,
                                          !.current_question = question, !.hint_used = FALSE,
                                          !.last_question_time = t]),
           Response("coach_response", "", NotInt, question, << >>))

\* CoachingEngine._ask_next_interview_question
_ask_next_interview_question(w, state, t, q) ==
    IF _should_end_interview(state, t) THEN EndWithReport(w, t)
    ELSE SurfaceQuestion(w, state, t, state.question_count,
                         _section_for_question(state.question_count),
                         _generate_interview_question(state, _section_for_question(state.question_count),
                                                      state.question_count, q))

\* normalized_text.split("::", 1)[1] if "::" in normalized_text else ""
PayloadText(normalized_text) ==
    IF Contains(normalized_text, << ":", ":" >>)
    THEN SplitTail(normalized_text, << ":", ":" >>) ELSE << >>

\* the BEGIN_INTERVIEW branch once the payload is parsed
InterviewSetup(w, state, payload) ==
    IF payload.job_description = << >>
    THEN Result(SetInterview(w, [state EXCEPT !.job_description = payload.job_description,
                                              !.resume = payload.resume, !.role = payload.role,
                                              !.stage = "job_desc"]),
                _interview_prompt(Str("Paste job description (optional).")))
    ELSE Result(SetInterview(w, [state EXCEPT !.job_description = payload.job_description,
                                              !.resume = payload.resume, !.role = payload.role,
                                              !.stage = "ready"]),
                _interview_prompt(Str("Thanks. This will be a 10-minute interview. Ready?")))

BeginInterviewCommandReset(w, state, normalized_text) ==
    InterviewSetup(w, [state EXCEPT !.question_count = 0],
                   PayloadOf(PayloadText(normalized_text), state.role))

\* _handle_interview_flow, the branch of a BEGIN_INTERVIEW command
BeginInterviewCommand(w, state, normalized_text) ==
    InterviewSetup(w, state, PayloadOf(PayloadText(normalized_text), state.role))

\* the state st is saved and the next question is asked from it
AskFrom(w, st, t, q) == _ask_next_interview_question(SetInterview(w, st), st, t, q)

\* whether the answer to a technical question comes after the timeout
TimedOut(state, t) ==
    /\ state.current_section = "technical"
    /\ state.last_question_time # NoTime
    /\ t - state.last_question_time > HintTimeout

\* whether the evaluated answer is answered with a hint
HintDue(state, text, t, e) ==
    /\ state.current_section = "technical"
    /\ ~TimedOut(state, t)
    /\ _evaluate_interview_answer(text, e) = "weak"
    /\ ~state.hint_used

\* _handle_interview_flow after the user's interaction was added: the stages
InterviewStage(w1, state, normalized_text, lower_text, t, q, e) ==
               IF state.stage = "init"
               THEN Result(SetInterview(w1, [state EXCEPT !.stage = "role"]),
                           _interview_prompt(Str("What role are you interviewing for?")))
               ELSE IF state.stage = "role"
               THEN Result(SetInterview(w1, [state EXCEPT !.role = normalized_text, !.stage = "job_desc"]),
                           _interview_prompt(Str("Paste job description (optional).")))
               ELSE IF state.stage = "job_desc"
               THEN Result(SetInterview(w1, [state EXCEPT
                               !.job_description = IF _is_skip(lower_text) THEN @ ELSE normalized_text,
                               !.stage = "resume"]),
                           _interview_prompt(Str("Upload resume (optional).")))
               ELSE IF state.stage = "resume"
               THEN Result(SetInterview(w1, [state EXCEPT
                               !.resume = IF _is_skip(lower_text) THEN @ ELSE normalized_text,
                               !.stage = "ready"]),
                           _interview_prompt(Str("Thanks. This will be a 10-minute interview. Ready?")))
               ELSE IF state.stage = "ready"
               THEN IF ~_is_yes(lower_text)
                    THEN Result(w1, _interview_prompt(Str("No problem. Tell me when you are ready.")))
                    ELSE AskFrom(w1, [state EXCEPT !.stage = "interview", !.started = TRUE,
                                                   !.start_time = t], t, q)
               ELSE IF _should_end_interview(state, t) THEN EndWithReport(w1, t)
               ELSE IF TimedOut(state, t)
               THEN AskFrom(w1, [state EXCEPT !.hint_used = TRUE], t, q)
               ELSE IF HintDue(state, normalized_text, t, e)
               THEN Result(SetInterview(w1, [state EXCEPT !.hint_used = TRUE]),
                           _interview_prompt(Str("Hint")))
               ELSE _ask_next_interview_question(w1, state, t, q)

\* _handle_interview_flow from the normalized text on
InterviewText(w, state, normalized_text, lower_text, t, q, e) ==
    IF StartsWith(normalized_text, BeginInterview)
    THEN BeginInterviewCommand(w, state, normalized_text)
    ELSE IF lower_text = << "e", "n", "d" >> THEN EndWithReport(w, t)
    ELSE InterviewStage(add_interaction(w, Interaction("", "user", normalized_text)),
                        state, normalized_text, lower_text, t, q, e)

\* CoachingEngine._handle_interview_flow at time t; q and e are the model's
\* answers to the question prompt and to the evaluation prompt
_handle_interview_flow(w, text, t, q, e) ==
    InterviewText(w, w.mem.interview_state, Strip(text), Lower(Strip(text)), t, q, e)

\* ------------------------------------------------------- public speaking
BeginPublicSpeaking ==
    << "B", "E", "G", "I", "N", "_", "P", "U", "B", "L", "I", "C", "_", "S",
       "P", "E", "A", "K", "I", "N", "G" >>

\* the text {"speaking_type":"Pitch"}
PayloadType ==
    << "{", "\"", "s", "p", "e", "a", "k", "i", "n", "g", "_", "t", "y", "p",
       "e", "\"", ":", "\"", "P", "i", "t", "c", "h", "\"", "}" >>

\* the text {"speaking_type":"Pitch","topic":"t"}
PayloadTypeTopic ==
    << "{", "\"", "s", "p", "e", "a", "k", "i", "n", "g", "_", "t", "y", "p",
       "e", "\"", ":", "\"", "P", "i", "t", "c", "h", "\"", ",", "\"", "t", "o",
       "p", "i", "c", "\"", ":", "\"", "t", "\"", "}" >>

\* json.loads of a command payload followed by the three payload.get calls
SpeakingPayloadOf(payload_text) ==
    IF payload_text = PayloadType
    THEN [speaking_type |-> << "P", "i", "t", "c", "h" >>, topic |-> << >>, script |-> << >>]
    ELSE IF payload_text = PayloadTypeTopic
    THEN [speaking_type |-> << "P", "i", "t", "c", "h" >>, topic |-> << "t" >>, script |-> << >>]
    ELSE [speaking_type |-> << >>, topic |-> << >>, script |-> << >>]

\* CoachingEngine._public_speaking_prompt
_public_speaking_prompt(voice_text) == Response("coach_response", "", NotInt, voice_text, << >>)

DoneTokens ==
    { << "d", "o", "n", "e" >>, << "t", "h", "a", "n", "k", " ", "y", "o", "u" >>,
      << "t", "h", "a", "n", "k", "s" >>, << "f", "i", "n", "i", "s", "h", "e", "d" >>,
      << "e", "n", "d" >> }

_is_public_speaking_done_never(text) == FALSE

\* CoachingEngine._is_public_speaking_done
_is_public_speaking_done(text) == \E token \in DoneTokens : Contains(text, token)

\* the keys of type_map in their order, and the type each stands for
SpeakingTypeKeys ==
    << << "i", "n", "t", "e", "r", "v", "i", "e", "w", " ", "a", "n", "s", "w", "e", "r" >>,
       << "i", "n", "t", "e", "r", "v", "i", "e", "w" >>,
       << "p", "r", "e", "s", "e", "n", "t", "a", "t", "i", "o", "n" >>,
       << "p", "i", "t", "c", "h" >>,
       << "s", "t", "o", "r", "y", "t", "e", "l", "l", "i", "n", "g" >>,
       << "s", "t", "o", "r", "y" >>,
       << "c", "a", "s", "u", "a", "l", " ", "c", "o", "n", "v", "e", "r", "s", "a", "t", "i", "o", "n" >>,
       << "c", "o", "n", "v", "e", "r", "s", "a", "t", "i", "o", "n" >> >>

SpeakingTypeNames ==
    << "Interview answer", "Interview answer", "Presentation", "Pitch",
       "Storytelling", "Storytelling", "Casual conversation", "Casual conversation" >>

\* CoachingEngine._normalize_speaking_type; the empty text stands for None
_normalize_speaking_type(text) ==
    LET normalized == Lower(Strip(text))
        hits == { k \in 1..Len(SpeakingTypeKeys) : Contains(normalized, SpeakingTypeKeys[k]) }
    IN IF hits = {} THEN << >>
       ELSE Str(SpeakingTypeNames[CHOOSE k \in hits : \A j \in hits : k <= j])

\* the number of words of a text whose white space is collapsed
WordsOf(c) == IF c = << >> THEN 0 ELSE 1 + Cardinality({ i \in 1..Len(c) : c[i] = " " })

\* len(text.split())
WordCount(text) == WordsOf(Collapse(text))

\* CoachingEngine._update_public_speaking_metrics
_update_public_speaking_metrics(state, text) ==
    [state EXCEPT
       !.word_count = @ + WordCount(text),
       !.filler_count = @ + SumCounts(Lower(text), FillerWords),
       !.pause_count = @ + Count(Lower(text), << ".", ".", "." >>)]

SetSpeaking(w, state) == _save_session([w EXCEPT !.mem.public_speaking_state = state])

\* the BEGIN_PUBLIC_SPEAKING branch once the payload is parsed
SpeakingSetup(w, state, payload) ==
    IF payload.speaking_type = << >>
    THEN Result(SetSpeaking(w, [state EXCEPT !.speaking_type = payload.speaking_type,
                                             !.topic = payload.topic, !.script = payload.script,
                                             !.stage = "type"]),
                _public_speaking_prompt(Str("What type of speaking do you want to practice?")))
    ELSE IF payload.topic = << >>
    THEN Result(SetSpeaking(w, [state EXCEPT !.speaking_type = payload.speaking_type,
                                             !.topic = payload.topic, !.script = payload.script,
                                             !.stage = "topic"]),
                _public_speaking_prompt(Str("Choose a topic or enter your own.")))
    ELSE Result(SetSpeaking(w, [state EXCEPT !.speaking_type = payload.speaking_type,
                                             !.topic = payload.topic, !.script = payload.script,
                                             !.stage = "ready"]),
                _public_speaking_prompt(Str("You will speak for about 3 to 5 minutes. Ready?")))

\* _handle_public_speaking_flow, the branch of a BEGIN_PUBLIC_SPEAKING command
BeginPublicSpeakingCommand(w, state, normalized_text) ==
    SpeakingSetup(w, state, SpeakingPayloadOf(PayloadText(normalized_text)))

\* CoachingEngine._followup_question
_followup_question(index) ==
    << "Can you summarize your main point in one sentence?",
       "What is one real-world example that supports your point?",
       "Who is your target audience?" >>[Min2(index, 2) + 1]

\* the topic stage once the topic is taken from the text
TopicChosen(w1, st) ==
    IF st.topic = << >>
    THEN Result([w1 EXCEPT !.mem.public_speaking_state = st],
                _public_speaking_prompt(Str("Choose a topic or enter your own.")))
    ELSE Result(SetSpeaking(w1, [st EXCEPT !.stage = "ready"]),
                _public_speaking_prompt(Str("You will speak for about 3 to 5 minutes. Ready?")))

FollowupNextLate(w1, st, next_index, t) ==
    IF next_index > st.followup_total
    THEN EndWithReport([w1 EXCEPT !.mem.public_speaking_state = st], t)
    ELSE Result(SetSpeaking(w1, [st EXCEPT !.followup_index = next_index]),
                _public_speaking_prompt(Str(_followup_question(next_index))))

\* the followup stage once the metrics are updated
FollowupNext(w1, st, next_index, t) ==
    IF next_index >= st.followup_total
    THEN EndWithReport([w1 EXCEPT !.mem.public_speaking_state = st], t)
    ELSE Result(SetSpeaking(w1, [st EXCEPT !.followup_index = next_index]),
                _public_speaking_prompt(Str(_followup_question(next_index))))

\* _handle_public_speaking_flow after the user's interaction was added
SpeakingStage(w1, state, normalized_text, lower_text, matched_type, t) ==
               IF state.stage = "init"
               THEN Result(SetSpeaking(w1, [state EXCEPT !.stage = "type"]),
                           _public_speaking_prompt(Str("What type of speaking do you want to practice?")))
               ELSE IF state.stage = "type"
               THEN IF matched_type # << >>
                    THEN IF state.topic # << >>
                         THEN Result(SetSpeaking(w1, [state EXCEPT !.speaking_type = matched_type,
                                                                   !.stage = "script"]),
                                     _public_speaking_prompt(Str("Upload a script or outline (optional).")))
                         ELSE Result(SetSpeaking(w1, [state EXCEPT !.speaking_type = matched_type,
                                                                   !.stage = "topic"]),
                                     _public_speaking_prompt(Str("Choose a topic or enter your own.")))
                    ELSE Result(SetSpeaking(w1, [state EXCEPT
                                    !.topic = IF @ = << >> THEN normalized_text ELSE @,
                                    !.speaking_type = IF @ = << >> THEN Str("Presentation") ELSE @,
                                    !.stage = "script"]),
                                _public_speaking_prompt(Str("Upload a script or outline (optional).")))
               ELSE IF state.stage = "topic"
               THEN TopicChosen(w1, [state EXCEPT
                                       !.topic = IF _is_skip(lower_text) THEN @ ELSE normalized_text])
               ELSE IF state.stage = "script"
               THEN Result(SetSpeaking(w1, [state EXCEPT
                               !.script = IF _is_skip(lower_text) THEN @ ELSE normalized_text,
                               !.stage = "ready"]),
                           _public_speaking_prompt(Str("You will speak for about 3 to 5 minutes. Ready?")))
               ELSE IF state.stage = "ready"
               THEN IF ~_is_yes(lower_text)
                    THEN Result(w1, _public_speaking_prompt(Str("No problem. Tell me when you are ready.")))
                    ELSE Result(SetSpeaking(w1, [state EXCEPT !.stage = "warmup", !.started = TRUE,
                                                              !.start_time = t]),
                                _public_speaking_prompt(Str("Introduce yourself in 30 seconds.")))
               ELSE IF state.stage = "warmup"
               THEN Result(SetSpeaking(w1, [state EXCEPT !.stage = "main", !.main_speech_start = t]),
                           _public_speaking_prompt(Str("Speak about ")
                               \o (IF state.topic # << >> THEN state.topic ELSE Str("your topic"))
                               \o Str(" for 3 minutes.")))
               ELSE IF state.stage = "main"
               THEN Result(SetSpeaking(w1, [_update_public_speaking_metrics(state, normalized_text)
                                              EXCEPT !.stage = "followup", !.followup_index = 0]),
                           _public_speaking_prompt(Str(_followup_question(0))))
               ELSE IF state.stage = "followup"
               THEN FollowupNext(w1, _update_public_speaking_metrics(state, normalized_text),
                                 state.followup_index + 1, t)
               ELSE Result(w1, _public_speaking_prompt(Str("Let us continue.")))

\* _handle_public_speaking_flow from the normalized text on
SpeakingText(w, state, normalized_text, lower_text, t) ==
    IF StartsWith(normalized_text, BeginPublicSpeaking)
    THEN BeginPublicSpeakingCommand(w, state, normalized_text)
    ELSE IF _is_public_speaking_done(lower_text) THEN EndWithReport(w, t)
    ELSE IF state.start_time # NoTime /\ t - state.start_time >= SpeakingMinutes * 60
    THEN EndWithReport(w, t)
    ELSE SpeakingStage(add_interaction(w, Interaction("", "user", normalized_text)),
                       state, normalized_text, lower_text,
                       _normalize_speaking_type(normalized_text), t)

\* CoachingEngine._handle_public_speaking_flow at time t
_handle_public_speaking_flow(w, text, t) ==
    SpeakingText(w, w.mem.public_speaking_state, Strip(text), Lower(Strip(text)), t)

\* ------------------------------------------------------------ dispatching
\* CoachingEngine.process_text at time t
process_text(w, text, t, m, q, e) ==
    IF w.mem.mode = "interview" THEN _handle_interview_flow(w, text, t, q, e)
    ELSE IF w.mem.mode = "public_speaking" THEN _handle_public_speaking_flow(w, text, t)
    ELSE process_text_free(w, text, m)

BargeInText(trigger_type) ==
    IF trigger_type = "filler_words" THEN Str("Stop. You are using too many filler words.")
    ELSE IF trigger_type = "stress_spike" THEN Str("Pause. I can tell you are nervous.")
    ELSE IF trigger_type = "gaze_away" THEN Str("Look at me. Maintain eye contact when speaking.")
    ELSE IF trigger_type = "combined" THEN Str("Stop. Let us reset.")
    ELSE Str("Let us pause and refocus.")

_handle_barge_in_twice(w, trigger) ==
    LET text == BargeInText(trigger.trigger_type)
    IN Result(add_interaction(add_interaction(w, Interaction("barge_in", "assistant", text)),
                              Interaction("barge_in", "assistant", text)),
              [Response("barge_in", "", NotInt, text, << >>) EXCEPT !.trigger = trigger])

\* CoachingEngine._handle_barge_in
_handle_barge_in(w, trigger) ==
    LET text == BargeInText(trigger.trigger_type)
    IN Result(add_interaction(w, Interaction("barge_in", "assistant", text)),
              [Response("barge_in", "", NotInt, text, << >>) EXCEPT !.trigger = trigger])

\* process_audio after process_text returned r: the assistant interaction
\* it adds and the response it returns
AudioReply(r) ==
    Result(add_interaction(r.w, Interaction("", "assistant",
                                            IF r.response.voice_text # << >> THEN r.response.voice_text
                                            ELSE r.response.narration)),
           IF r.response.kind \in {"step", "check_in"} \/ r.response.type # ""
           THEN r.response
           ELSE [r.response EXCEPT !.type = "coach_response"])

\* process_audio from the barge-in decision on
AudioDecided(w, should_barge_in, transcript, t, m, q, e) ==
    IF should_barge_in # NoTrigger THEN _handle_barge_in(w, should_barge_in)
    ELSE AudioReply(process_text(w, transcript, t, m, q, e))

\* CoachingEngine.process_audio at time t
process_audio(w, transcript, t, m, q, e) ==
    AudioDecided(w,
                 IF w.mem.mode # "public_speaking"
                 THEN should_trigger(transcript, get_latest_biometric(w.mem), w.mem.barge_in_sensitivity)
                 ELSE NoTrigger,
                 transcript, t, m, q, e)

\* the value of a key the frame lacks
FrameAbsent == 0 - 1

DefaultHeartRate == 70

BaselineAfter == 10

BaselineWindow == 10

\* sum(b.get("heart_rate", 70) for b in timeline)
RECURSIVE SumHeartRates(_)
SumHeartRates(timeline) ==
    IF timeline = << >> THEN 0
    ELSE (IF Head(timeline).heart_rate = FrameAbsent THEN DefaultHeartRate ELSE Head(timeline).heart_rate)
         + SumHeartRates(Tail(timeline))

\* the averages are kept as fractions: avg_hr is num / den
BaselineOf(timeline) ==
    [present |-> TRUE,
     resting_heart_rate |-> [num |-> SumHeartRates(timeline), den |-> Len(timeline)],
     stress_threshold |-> [num |-> 12 * SumHeartRates(timeline), den |-> 10 * Len(timeline)]]

\* SessionManager._calculate_baseline
_calculate_baseline(session) ==
    IF session.biometric_timeline = << >> THEN session
    ELSE [session EXCEPT !.biometric_baseline =
            BaselineOf(SubSeq(session.biometric_timeline, 1,
                              IF Len(session.biometric_timeline) < BaselineWindow
                              THEN Len(session.biometric_timeline) ELSE BaselineWindow))]

BaselineDueAtOnce(session) == ~session.biometric_baseline.present

\* add_biometric_data, whether the baseline is computed after the append
BaselineDue(session) ==
    ~session.biometric_baseline.present /\ Len(session.biometric_timeline) >= BaselineAfter

\* add_biometric_data after the frame was appended
FrameAppended(session) ==
    IF BaselineDue(session) THEN _calculate_baseline(session) ELSE session

add_biometric_data_only(w, biometric_data) ==
    [w EXCEPT !.mem = FrameAppended([w.mem EXCEPT !.biometric_timeline = << biometric_data >>])]

\* SessionManager.add_biometric_data
add_biometric_data(w, biometric_data) ==
    [w EXCEPT !.mem = FrameAppended([w.mem EXCEPT !.biometric_timeline = Append(@, biometric_data)])]

\* ------------------------------------------------------------------ inputs
TxtHello == << "h", "i" >>

TxtYes == << "y", "e", "s" >>

TxtNo == << "n", "o" >>

TxtEnd == << "e", "n", "d" >>

TxtUm == << "u", "m", " ", "u", "h", " ", "u", "m" >>

TxtBegin == BeginInterview

TxtBeginJD == BeginInterview \o << ":", ":" >> \o PayloadJD

TxtDone == << "d", "o", "n", "e" >>

TxtPitch == << "p", "i", "t", "c", "h" >>

TxtPause == << "u", "m", " ", ".", ".", "." >>

TxtBeginSpeaking == BeginPublicSpeaking

TxtBeginSpeakingTopic == BeginPublicSpeaking \o << ":", ":" >> \o PayloadTypeTopic

\* the texts a client sends in a session of the given mode
TextsOf(mode) ==
    IF mode = "interview" THEN {TxtYes, TxtNo, TxtEnd, TxtBegin, TxtBeginJD}
    ELSE IF mode = "public_speaking"
    THEN {TxtYes, TxtNo, TxtPitch, TxtPause, TxtDone, TxtBeginSpeaking, TxtBeginSpeakingTopic}
    ELSE {TxtHello}

TranscriptsOf(mode) ==
    IF mode = "interview" THEN {TxtYes, TxtUm}
    ELSE IF mode = "public_speaking" THEN {TxtYes, TxtUm}
    ELSE {TxtHello, TxtUm}

\* the inference results a turn on the session can consume: the interview
\* flow asks the model for a question only in the technical section and
\* branches on the evaluation only there (elsewhere the evaluation becomes the
\* feedback text alone); the other modes ask for one structured response
InferenceOf(session) ==
    IF session.mode = "interview"
    THEN { [m |-> NoModel, q |-> q, e |-> e] :
             q \in IF _section_for_question(session.interview_state.question_count) = "technical"
                   THEN QuestionOutputs ELSE { CHOOSE x \in QuestionOutputs : ~x.ok },
             e \in IF session.interview_state.current_section = "technical"
                   THEN EvaluationOutputs ELSE {"fail"} }
    ELSE IF session.mode = "public_speaking"
    THEN { [m |-> NoModel, q |-> CHOOSE x \in QuestionOutputs : ~x.ok, e |-> "fail"] }
    ELSE { [m |-> m, q |-> CHOOSE x \in QuestionOutputs : ~x.ok, e |-> "fail"] : m \in ModelOutputs }

SessionFrames ==
    { [present |-> TRUE, stress_level |-> "high", gaze_direction |-> << 6, 0, 0 >>] }

TickSteps == {HintTimeout + 1, MaxMinutes * 60}

MaxFrames == 1

NoEvent == [op |-> "none", sid |-> "", text |-> << >>, m |-> NoModel]

Event(op, sid, text, m) == [op |-> op, sid |-> sid, text |-> text, m |-> m]

NoUse == [ticks |-> 0, audio |-> 0, begin |-> 0, end |-> 0, turns |-> 0]

\* ----------------------------------------------------------------- actions
World(sid) == [mem |-> active_sessions[sid], disk |-> disk[sid]]

\* the state after an event on session sid with result r
Commit(sid, r, event) ==
    /\ active_sessions' = [active_sessions EXCEPT ![sid] = r.w.mem]
    /\ disk' = [disk EXCEPT ![sid] = r.w.disk]
    /\ out' = r.response
    /\ ev' = event
    /\ maxStep' = IF r.response.kind = "step" THEN Max2(maxStep, r.response.step.val) ELSE maxStep

\* an event of a staged session (interview, public speaking) is explored
\* while the number of events since the initial state is within the bound
Staged(session) == session.mode \in {"interview", "public_speaking"}

\* a turn is taken while the session's history and step, or the number of
\* events explored from the initial state, are within the bounds
CanTurn(session) ==
    IF Staged(session) THEN used.turns < MaxTurns
    ELSE session.tutoring_step <= MaxStep /\ Len(session.interactions) < MaxHist

IsBegin(text) == StartsWith(Strip(text), BeginInterview)

IsCommand(text) == IsBegin(text) \/ StartsWith(Strip(text), BeginPublicSpeaking)

\* main.py, messages "text" and "user_speech": CoachingEngine.process_text
TextTurn ==
    \E sid \in DOMAIN active_sessions :
      \E text \in TextsOf(active_sessions[sid].mode), inf \in InferenceOf(active_sessions[sid]) :
        /\ CanTurn(active_sessions[sid])
        /\ IsCommand(text) => used.begin < MaxBegin
        /\ Commit(sid, process_text(World(sid), text, now, inf.m, inf.q, inf.e), Event("text", sid, text, inf.m))
        /\ used' = [used EXCEPT !.begin = IF IsCommand(text) THEN @ + 1 ELSE @, !.turns = @ + 1]
        /\ UNCHANGED << pc, arg, res, now >>

\* CoachingEngine.process_audio
AudioTurn ==
    \E sid \in DOMAIN active_sessions :
      \E text \in TranscriptsOf(active_sessions[sid].mode), inf \in InferenceOf(active_sessions[sid]) :
        /\ CanTurn(active_sessions[sid])
        /\ used.audio < MaxAudio
        /\ Commit(sid, process_audio(World(sid), text, now, inf.m, inf.q, inf.e), Event("audio", sid, text, inf.m))
        /\ used' = [used EXCEPT !.audio = @ + 1, !.turns = @ + 1]
        /\ UNCHANGED << pc, arg, res, now >>

\* main.py, message "biometric_data": CoachingEngine.process_biometric
BiometricFrame ==
    \E sid \in DOMAIN active_sessions, frame \in SessionFrames :
      /\ Len(active_sessions[sid].biometric_timeline) < MaxFrames
      /\ Commit(sid, Result(add_biometric_data(World(sid), frame), NoResponse), Event("biometric", sid, << >>, NoModel))
      /\ UNCHANGED << pc, arg, res, now, used >>

\* main.py, message "end_session" and POST /api/session/end
EndSession ==
    \E sid \in DOMAIN active_sessions :
      /\ used.end < MaxEnd
      /\ Staged(active_sessions[sid]) => used.turns < MaxTurns
      /\ Commit(sid, EndWithReport(World(sid), now), Event("end", sid, << >>, NoModel))
      /\ used' = [used EXCEPT !.end = @ + 1, !.turns = @ + 1]
      /\ UNCHANGED << pc, arg, res, now >>

\* the clock advances between events
Tick ==
    \E d \in TickSteps :
      /\ used.ticks < MaxTicks
      /\ used.turns < MaxTurns
      /\ now' = now + d
      /\ used' = [used EXCEPT !.ticks = @ + 1, !.turns = @ + 1]
      /\ ev' = Event("tick", "", << >>, NoModel)
      /\ UNCHANGED << pc, arg, res, active_sessions, disk, out, maxStep >>

\* every session is cached and persisted as the world w
StartsAs(w) ==
    /\ active_sessions = [sid \in SessionIds |-> w.mem]
    /\ disk = [sid \in SessionIds |-> w.disk]

\* after SessionManager.create_session(user, mode) for a mode of the given set
InitModes(modes) ==
    /\ pc = "session" /\ arg = << >> /\ res = << >>
    /\ \E mode \in modes :
         /\ active_sessions = [sid \in SessionIds |-> NewSession(mode, 0)]
         /\ disk = [sid \in SessionIds |-> NewSession(mode, 0)]
    /\ now = 0
    /\ out = NoResponse
    /\ ev = NoEvent
    /\ used = NoUse
    /\ maxStep = NoTime

\* a tutoring or free-form session; its turns read no clock
InitFree == InitModes({"tutoring", "other"})

NextFree == TextTurn \/ AudioTurn \/ BiometricFrame \/ EndSession

Spec == InitFree /\ [][NextFree]_vars

\* the world after n turns of a candidate who answers "yes" to every prompt
\* and question, the model answering every prompt (evaluation good)
RECURSIVE Scripted(_, _)
Scripted(w, n) ==
    IF n = 0 THEN w
    ELSE _handle_interview_flow(Scripted(w, n - 1), TxtYes, 0,
                                CHOOSE x \in QuestionOutputs : x.ok, "good").w

\* an interview session, new or after some turns of that candidate
InitInterview ==
    /\ pc = "session" /\ arg = << >> /\ res = << >>
    /\ \E n \in 0..ScriptTurns :
         StartsAs(Scripted([mem |-> NewSession("interview", 0), disk |-> NewSession("interview", 0)], n))
    /\ now = 0
    /\ out = NoResponse
    /\ ev = NoEvent
    /\ used = NoUse
    /\ maxStep = NoTime

NextInterview == TextTurn \/ AudioTurn \/ EndSession \/ Tick

SpecInterview == InitInterview /\ [][NextInterview]_vars

\* the world after n turns of a speaker who says "yes" at every prompt
RECURSIVE ScriptedSpeaking(_, _)
ScriptedSpeaking(w, n) ==
    IF n = 0 THEN w
    ELSE _handle_public_speaking_flow(ScriptedSpeaking(w, n - 1), TxtYes, 0).w

\* a public-speaking session, new or after some turns of that speaker
InitSpeaking ==
    /\ pc = "session" /\ arg = << >> /\ res = << >>
    /\ \E n \in 0..SpeakingScriptTurns :
         StartsAs(ScriptedSpeaking([mem |-> NewSession("public_speaking", 0),
                                    disk |-> NewSession("public_speaking", 0)], n))
    /\ now = 0
    /\ out = NoResponse
    /\ ev = NoEvent
    /\ used = NoUse
    /\ maxStep = NoTime

SpecSpeaking == InitSpeaking /\ [][NextInterview]_vars

\* ---------------------------------------------------------- pure functions
Idle ==
    /\ active_sessions = << >> /\ disk = << >> /\ now = 0 /\ out = NoResponse
    /\ ev = NoEvent /\ used = NoUse /\ maxStep = NoTime

IdleUnchanged == UNCHANGED << active_sessions, disk, now, out, ev, used, maxStep >>

NormInit == pc = "input" /\ arg \in NormInputs /\ res = << >> /\ Idle

Normalize ==
    /\ pc = "input"
    /\ res' = _normalize_interview_question(arg)
    /\ pc' = "done"
    /\ UNCHANGED arg /\ IdleUnchanged

SpecNormalize == NormInit /\ [][Normalize]_vars

BargeInit == pc = "input" /\ arg \in BargeInputs /\ res = NoTrigger /\ Idle

Detect ==
    /\ pc = "input"
    /\ res' = should_trigger(arg.transcript, arg.biometric_data, arg.sensitivity)
    /\ pc' = "done"
    /\ UNCHANGED arg /\ IdleUnchanged

SpecBargeIn == BargeInit /\ [][Detect]_vars

\* ------------------------------------------------ history and compression
\* the k-th entry of a dialogue that alternates user and assistant
ScriptEntry(k) == Interaction("", IF k % 2 = 1 THEN "user" ELSE "assistant", Str(ToString(k)))

\* the world after n such entries were added to a new session by
\* add_interaction, n <= CompressInteractions so that none was compressed
Prefilled(n) ==
    LET session == [NewSession("tutoring", 0) EXCEPT
                      !.interactions = [k \in 1..n |-> ScriptEntry(k)],
                      !.context_history = [k \in 1..n |-> HistoryEntry(ScriptEntry(k).role, ScriptEntry(k).content)]]
    IN [mem |-> session, disk |-> session]

PrefillLengths ==
    {0} \cup { limit - k : limit \in {CompressMin, CompressHistory, CompressInteractions},
                          k \in 0..MaxPrefill }

HistoryContents == { << "x" >>, << "y" >> }

\* the interactions a caller hands to add_interaction
HistoryInputs ==
    { Interaction("", role, c) : role \in {"user", "assistant"}, c \in HistoryContents }
    \cup { Interaction("barge_in", "assistant", << "x" >>) }
    \cup { LegacyInteraction(<< "x" >>, << "y" >>), LegacyInteraction(<< "x" >>, << >>) }

\* arg: the history entries that the interactions added so far stand for
InitHistory ==
    /\ pc = "history" /\ res = << >>
    /\ \E n \in PrefillLengths :
         LET w == Prefilled(n)
         IN /\ active_sessions = [sid \in SessionIds |-> w.mem]
            /\ disk = [sid \in SessionIds |-> w.disk]
            /\ arg = [k \in 1..n |-> HistoryEntry(ScriptEntry(k).role, ScriptEntry(k).content)]
    /\ now = 0 /\ out = NoResponse /\ ev = NoEvent /\ used = NoUse /\ maxStep = NoTime

\* SessionManager.add_interaction called on the session
AddInteraction ==
    \E sid \in DOMAIN active_sessions, interaction \in HistoryInputs :
      /\ used.turns < MaxHistOps
      /\ Commit(sid, Result(add_interaction(World(sid), interaction), NoResponse),
                Event("add", sid, << >>, NoModel))
      /\ arg' = arg \o HistoryEntriesOf(interaction)
      /\ used' = [used EXCEPT !.turns = @ + 1]
      /\ UNCHANGED << pc, res, now >>

\* SessionManager.end_session called on the session
EndHistory ==
    \E sid \in DOMAIN active_sessions :
      /\ used.end < MaxEnd
      /\ Commit(sid, Result(end_session(World(sid), now), NoResponse), Event("end", sid, << >>, NoModel))
      /\ used' = [used EXCEPT !.end = @ + 1]
      /\ UNCHANGED << pc, arg, res, now >>

NextHistory == AddInteraction \/ EndHistory

SpecHistory == InitHistory /\ [][NextHistory]_vars

\* the interactions the engine hands to add_interaction: role and content,
\* a barge-in among them
DialogueInputs ==
    { Interaction("", role, c) : role \in {"user", "assistant"}, c \in HistoryContents }
    \cup { Interaction("barge_in", "assistant", << "x" >>) }

\* SessionManager.add_interaction called by the engine
AddDialogue ==
    \E sid \in DOMAIN active_sessions, interaction \in DialogueInputs :
      /\ used.turns < MaxHistOps
      /\ Commit(sid, Result(add_interaction(World(sid), interaction), NoResponse),
                Event("add", sid, << >>, NoModel))
      /\ arg' = arg \o HistoryEntriesOf(interaction)
      /\ used' = [used EXCEPT !.turns = @ + 1]
      /\ UNCHANGED << pc, res, now >>

NextDialogue == AddDialogue \/ EndHistory

SpecDialogue == InitHistory /\ [][NextDialogue]_vars

\* ------------------------------------------------------ failing inference
\* the reply's text is empty or holds no JSON object: generate_structured_response
\* returns it as the voice_text of a coach_response
UnparsedModel == [fail |-> FALSE, kind |-> "", type |-> "", step |-> NotInt]

\* the inference results of a turn whose every call to the model fails
FailedInference(session) ==
    { [m |-> m, q |-> CHOOSE x \in QuestionOutputs : ~x.ok, e |-> "fail"] :
        m \in IF Staged(session) THEN {NoModel} ELSE {NoModel, UnparsedModel} }

\* the keys of the payload of GeminiClient._fallback_response
_fallback_response_keys(mode) ==
    IF mode = "tutoring"
    THEN {"kind", "step", "subtopic_id", "narration", "visual", "avatar_intent", "error"}
    ELSE {"type", "voice_text", "visual_content", "avatar_intent", "pedagogical_state", "error"}

\* the keys of the payload generate_structured_response returns when the
\* call raised (m.fail) or the reply held no JSON object
generate_structured_response_keys(m, mode) ==
    IF m.fail THEN _fallback_response_keys(mode)
    ELSE {"type", "voice_text", "visual_content", "avatar_intent", "pedagogical_state"}

\* the keys of the payload process_text returns, from the kind and the keys
\* of the payload of generate_structured_response
process_text_keys(mode, kind, type, keys) ==
    IF kind \in {"step", "check_in"}
    THEN keys \cup {"avatar_intent", "avatar_state"} \cup (IF kind = "step" THEN {"step", "narration"} ELSE {})
    ELSE IF type = "error"
    THEN IF mode = "tutoring"
         THEN {"kind", "step", "subtopic_id", "narration", "visual", "avatar_intent", "avatar_state", "error"}
         ELSE {"type", "voice_text", "visual_content", "avatar_intent", "avatar_state",
               "pedagogical_state", "timestamp"}
    ELSE IF mode = "tutoring" /\ kind = ""
    THEN {"kind", "step", "subtopic_id", "narration", "visual", "avatar_intent", "avatar_state",
          "pedagogical_state"}
    ELSE {"type", "voice_text", "visual_content", "avatar_intent", "avatar_state",
          "pedagogical_state", "timestamp"}

\* the keys of the payload of a text turn of a tutoring or free-form session
\* whose call to the model failed as m
FailedTurnKeys(mode, m) ==
    process_text_keys(mode, generate_structured_response(m, mode).kind,
                      generate_structured_response(m, mode).type,
                      generate_structured_response_keys(m, mode))

\* a text turn whose calls to the model fail
FailedTextTurn ==
    \E sid \in DOMAIN active_sessions :
      \E text \in TextsOf(active_sessions[sid].mode), inf \in FailedInference(active_sessions[sid]) :
        /\ CanTurn(active_sessions[sid])
        /\ IsCommand(text) => used.begin < MaxBegin
        /\ Commit(sid, process_text(World(sid), text, now, inf.m, inf.q, inf.e), Event("text", sid, text, inf.m))
        /\ used' = [used EXCEPT !.begin = IF IsCommand(text) THEN @ + 1 ELSE @, !.turns = @ + 1]
        /\ UNCHANGED << pc, arg, res, now >>

\* a transcript turn whose calls to the model fail
FailedAudioTurn ==
    \E sid \in DOMAIN active_sessions :
      \E text \in TranscriptsOf(active_sessions[sid].mode), inf \in FailedInference(active_sessions[sid]) :
        /\ CanTurn(active_sessions[sid])
        /\ used.audio < MaxAudio
        /\ Commit(sid, process_audio(World(sid), text, now, inf.m, inf.q, inf.e), Event("audio", sid, text, inf.m))
        /\ used' = [used EXCEPT !.audio = @ + 1, !.turns = @ + 1]
        /\ UNCHANGED << pc, arg, res, now >>

\* a session of any mode, new or at any stage of its flow
InitFailure == InitModes({"tutoring", "other"}) \/ InitInterview \/ InitSpeaking

NextFailure == FailedTextTurn \/ FailedAudioTurn \/ BiometricFrame \/ EndSession \/ Tick

SpecFailure == InitFailure /\ [][NextFailure]_vars

\* ---------------------------------------------------------- draw directive
MaxDrawLen == 3

DrawPrefix == << "D", "R", "A", "W", "_" >>

NoDirective == [ok |-> FALSE, command |-> << >>, detail |-> << >>]

Directive(command, detail) == [ok |-> TRUE, command |-> command, detail |-> detail]

\* _parse_draw_directive from the stripped text on, the detail left untrimmed
DirectiveOfRawUntrimmed(raw) ==
    IF ~StartsWith(raw, DrawPrefix) THEN NoDirective
    ELSE IF Strip(SplitHead(raw, << ":" >>)) = << >> THEN NoDirective
    ELSE Directive(Strip(SplitHead(raw, << ":" >>)), SplitTail(raw, << ":" >>))

\* _parse_draw_directive from the stripped text on
DirectiveOfRaw(raw) ==
    IF ~StartsWith(raw, DrawPrefix) THEN NoDirective
    ELSE IF Strip(SplitHead(raw, << ":" >>)) = << >> THEN NoDirective
    ELSE Directive(Strip(SplitHead(raw, << ":" >>)), Strip(SplitTail(raw, << ":" >>)))

\* CoachingEngine._parse_draw_directive; the empty text stands for every
\* value that is not true (None, "")
_parse_draw_directive(text) ==
    IF text = << >> THEN NoDirective ELSE DirectiveOfRaw(Strip(text))

\* visual-content strings: white space or nothing, then the prefix, a part of
\* it or another letter, then a few letters, colons and blanks
DrawInputs ==
    { lead \o head \o rest :
        lead \in {<< >>, << " " >>},
        head \in {DrawPrefix, << "D", "R", "A", "W" >>, << "X" >>, << >>},
        rest \in SeqsUpTo({"A", ":", " "}, MaxDrawLen) }

DrawInit == pc = "input" /\ arg \in DrawInputs /\ res = NoDirective /\ Idle

ParseDraw ==
    /\ pc = "input"
    /\ res' = _parse_draw_directive(arg)
    /\ pc' = "done"
    /\ UNCHANGED arg /\ IdleUnchanged

SpecDraw == DrawInit /\ [][ParseDraw]_vars

\* ------------------------------------------------------ websocket channel
RetentionHours == 24

\* a lookup that caches a blank record for an id it does not find
get_session_caching(mem, dsk, session_id, t) ==
    IF session_id \in DOMAIN mem THEN [found |-> TRUE, mem |-> mem]
    ELSE IF session_id \in DOMAIN dsk /\ t - dsk[session_id].start_time < RetentionHours * 3600
    THEN [found |-> TRUE, mem |-> (session_id :> dsk[session_id]) @@ mem]
    ELSE [found |-> FALSE, mem |-> (session_id :> NewSession("other", t)) @@ mem]

\* SessionManager.get_session at time t over the cache mem and the files dsk:
\* whether a session is returned, and the cache afterwards
get_session(mem, dsk, session_id, t) ==
    IF session_id \in DOMAIN mem THEN [found |-> TRUE, mem |-> mem]
    ELSE IF session_id \in DOMAIN dsk /\ t - dsk[session_id].start_time < RetentionHours * 3600
    THEN [found |-> TRUE, mem |-> (session_id :> dsk[session_id]) @@ mem]
    ELSE [found |-> FALSE, mem |-> mem]

\* a payload {"type": "error", "message": message}
ErrorPayload(message) ==
    [type |-> "error", kind |-> "", step |-> NotInt, voice_text |-> << >>,
     narration |-> << >>, trigger |-> NoTrigger, message |-> message]

Connected == Response("connected", "", NotInt, << >>, << >>)

\* coaching_websocket up to its message loop: the cache, the payload sent
\* and the channel's position afterwards
ConnectFound(g) ==
    IF g.found THEN [mem |-> g.mem, response |-> Connected, pc |-> "open"]
    ELSE [mem |-> g.mem, response |-> ErrorPayload("Session not found"), pc |-> "closed"]

coaching_websocket_connect(mem, dsk, session_id, t) ==
    ConnectFound(get_session(mem, dsk, session_id, t))

\* a JSON value read as text: absent (or null), a string, or a number
JAbsent == [kind |-> "absent", text |-> << >>]

JString(text) == [kind |-> "string", text |-> text]

JNumber == [kind |-> "number", text |-> << >>]

\* what a client sent: text that is no JSON ("invalid"), a JSON value that is
\* no object ("value"), or an object with its keys type ("" when absent),
\* transcript, payload and data ("absent", "object" or "other")
Message(json, type, transcript, payload, data) ==
    [json |-> json, type |-> type, transcript |-> transcript, payload |-> payload, data |-> data]

\* an object without "data" is handled as an empty frame
EmptyFrame == [present |-> TRUE, stress_level |-> "", gaze_direction |-> << 0, 0, 0 >>]

\* (value or "").strip() of a string or absent value
StrippedField(value) == IF value.kind = "string" THEN Strip(value.text) ELSE << >>

\* the result of one round of the message loop
Handled(w, response, position) == [w |-> w, response |-> response, pc |-> position]

\* the branch of the loop for a text field: a number has no strip(), and the
\* exception is answered by the handler of the loop's inner try
SpeechNoStrip(w, value, empty_message, type, t, m, q, e) ==
    IF value.kind = "number"
    THEN Handled(w, ErrorPayload("Failed to process message"), "open")
    ELSE IF value.kind # "string" \/ value.text = << >> THEN Handled(w, ErrorPayload(empty_message), "open")
    ELSE Handled(process_text(w, value.text, t, m, q, e).w,
                 process_text(w, value.text, t, m, q, e).response, "open")

Speech(w, value, empty_message, type, t, m, q, e) ==
    IF value.kind = "number"
    THEN Handled(w, ErrorPayload("Failed to process message"), "open")
    ELSE IF StrippedField(value) = << >> THEN Handled(w, ErrorPayload(empty_message), "open")
    ELSE Handled(process_text(w, StrippedField(value), t, m, q, e).w,
                 process_text(w, StrippedField(value), t, m, q, e).response, "open")

\* the routing of a message with a type
Routed(w, message, t, m, q, e) ==
    IF message.type = "user_speech"
    THEN Speech(w, message.transcript, "Empty transcript received", message.type, t, m, q, e)
    ELSE IF message.type = "biometric_data"
    THEN IF message.data = "other" THEN Handled(w, ErrorPayload("Invalid biometric_data payload"), "open")
         ELSE Handled(add_biometric_data(w, IF message.data = "object" THEN (CHOOSE f \in SessionFrames : TRUE) ELSE EmptyFrame),
                      NoResponse, "open")
    ELSE IF message.type = "text"
    THEN Speech(w, message.payload, "Empty text payload received", message.type, t, m, q, e)
    ELSE IF message.type = "end_session"
    THEN Handled(EndWithReport(w, t).w, EndWithReport(w, t).response, "closed")
    ELSE Handled(w, ErrorPayload("Unsupported message type"), "open")

\* one round of the message loop of coaching_websocket
coaching_websocket_message(w, message, t, m, q, e) ==
    IF message.json = "invalid" THEN Handled(w, ErrorPayload("Invalid JSON payload"), "open")
    ELSE IF message.json # "object"
    THEN Handled(w, ErrorPayload("Invalid message payload: expected JSON object"), "open")
    ELSE IF message.type = ""
    THEN Handled(w, ErrorPayload("Invalid message payload: missing 'type'"), "open")
    ELSE Routed(w, message, t, m, q, e)

TxtBlank == << " ", " " >>

\* the text values of a message's transcript or payload
TextFields(mode) == {JAbsent, JNumber, JString(<< >>), JString(TxtBlank)} \cup { JString(x) : x \in TextsOf(mode) }

\* the messages a client sends on a channel of a session of the given mode
ChannelMessages(mode) ==
    { Message("invalid", "", JAbsent, JAbsent, "absent"), Message("value", "", JAbsent, JAbsent, "absent"),
      Message("object", "", JString(TxtHello), JString(TxtHello), "object"),
      Message("object", "bogus", JString(TxtHello), JString(TxtHello), "object"),
      Message("object", "end_session", JAbsent, JAbsent, "absent") }
    \cup { Message("object", "user_speech", x, JAbsent, "absent") : x \in TextFields(mode) }
    \cup { Message("object", "text", JString(TxtHello), x, "absent") : x \in TextFields(mode) }
    \cup { Message("object", "biometric_data", JAbsent, JAbsent, d) : d \in {"absent", "object", "other"} }

\* the session ids a client presents
ChannelIds == SessionIds \cup {"s0"}

NoMessage == Message("none", "", JAbsent, JAbsent, "absent")

\* the modes of the sessions a channel is opened for
ChannelModes == {"tutoring", "other"}

\* a socket accepted for a presented session id, before get_session
InitChannel ==
    /\ pc = "accepted" /\ arg = NoMessage /\ res = << >>
    /\ \E mode \in ChannelModes :
         /\ active_sessions = [sid \in SessionIds |-> NewSession(mode, 0)]
         /\ disk = [sid \in SessionIds |-> NewSession(mode, 0)]
    /\ now = 0
    /\ out = NoResponse
    /\ \E sid \in ChannelIds : ev = Event("accept", sid, << >>, NoModel)
    /\ used = NoUse
    /\ maxStep = NoTime

\* coaching_websocket from accept to the first receive
Connect ==
    /\ pc = "accepted"
    /\ active_sessions' = coaching_websocket_connect(active_sessions, disk, ev.sid, now).mem
    /\ out' = coaching_websocket_connect(active_sessions, disk, ev.sid, now).response
    /\ pc' = coaching_websocket_connect(active_sessions, disk, ev.sid, now).pc
    /\ ev' = Event("connect", ev.sid, << >>, NoModel)
    /\ UNCHANGED << arg, res, disk, now, used, maxStep >>

\* whether the message loop hands the message to a turn of the engine
StartsTurn(message) ==
    /\ message.json = "object"
    /\ \/ message.type = "user_speech" /\ StrippedField(message.transcript) # << >>
       \/ message.type = "text" /\ StrippedField(message.payload) # << >>

\* the inference results of a channel's turns: a failure or a proposed step
ChannelInference ==
    { [m |-> m, q |-> CHOOSE x \in QuestionOutputs : ~x.ok, e |-> "fail"] :
        m \in {NoModel, [fail |-> FALSE, kind |-> "step", type |-> "", step |-> IntStep(1)]} }

\* coaching_websocket: one message received and handled
Receive ==
    /\ pc = "open"
    /\ \E message \in ChannelMessages(active_sessions[ev.sid].mode), inf \in ChannelInference :
         /\ StartsTurn(message) => used.turns < MaxChannelTurns
         /\ ~StartsTurn(message) => ~inf.m.fail
         /\ (message.json = "object" /\ message.type = "biometric_data" /\ message.data # "other")
              => Len(active_sessions[ev.sid].biometric_timeline) < MaxFrames
         /\ Commit(ev.sid, coaching_websocket_message(World(ev.sid), message, now, inf.m, inf.q, inf.e),
                   Event("message", ev.sid, << >>, inf.m))
         /\ pc' = coaching_websocket_message(World(ev.sid), message, now, inf.m, inf.q, inf.e).pc
         /\ arg' = message
         /\ used' = [used EXCEPT !.turns = IF StartsTurn(message) THEN @ + 1 ELSE @]
         /\ UNCHANGED << res, now >>

NextChannel == Connect \/ Receive

SpecChannel == InitChannel /\ [][NextChannel]_vars

\* ------------------------------------------------------ session retention
\* In this part arg holds the modification time of every session file.
Day == RetentionHours * 3600

\* SessionManager._cleanup_old_sessions at time t with the boundary included
_cleanup_old_sessions_inclusive(mtimes, t) == { sid \in DOMAIN mtimes : ~(t - mtimes[sid] >= Day) }

\* SessionManager._cleanup_old_sessions at time t: the files that remain
_cleanup_old_sessions(mtimes, t) == { sid \in DOMAIN mtimes : ~(t - mtimes[sid] > Day) }

StoreIds == {"s1", "s2"}

\* the creation and modification times of the files found at start-up, the
\* clock standing at two days
StoreTimes == {Day - 1, Day, Day + 1}

StoreEvent(op, sid) == Event(op, sid, << >>, NoModel)

\* a storage directory left by an earlier process, no SessionManager yet
InitStore ==
    /\ pc = "down" /\ res = FALSE
    /\ active_sessions = << >>
    /\ \E started \in [StoreIds -> StoreTimes], modified \in [StoreIds -> StoreTimes] :
         /\ \A sid \in StoreIds : started[sid] <= modified[sid]
         /\ disk = [sid \in StoreIds |-> NewSession("other", started[sid])]
         /\ arg = modified
    /\ now = 2 * Day
    /\ out = NoResponse
    /\ ev = NoEvent
    /\ used = NoUse
    /\ maxStep = NoTime

\* SessionManager.__init__: an empty cache over the cleaned directory
Construct ==
    /\ used.turns < MaxStoreOps
    /\ pc' = "up"
    /\ active_sessions' = << >>
    /\ disk' = [sid \in _cleanup_old_sessions(arg, now) |-> disk[sid]]
    /\ arg' = [sid \in _cleanup_old_sessions(arg, now) |-> arg[sid]]
    /\ ev' = StoreEvent("construct", "")
    /\ used' = [used EXCEPT !.turns = @ + 1]
    /\ UNCHANGED << res, now, out, maxStep >>

CleanupEvery == 5

\* the files that remain after create_session: the directory is cleaned when
\* the number of cached sessions is a multiple of five
KeptOnCreate(mtimes, cached, t) ==
    IF cached % CleanupEvery = 0 THEN _cleanup_old_sessions(mtimes, t) ELSE DOMAIN mtimes

\* SessionManager.create_session: the session is cached and saved
CreateSession ==
    /\ pc = "up" /\ used.turns < MaxStoreOps
    /\ \E sid \in { x \in StoreIds : x \notin DOMAIN active_sessions /\ x \notin DOMAIN disk } :
         /\ active_sessions' = (sid :> NewSession("other", now)) @@ active_sessions
         /\ disk' = [x \in KeptOnCreate((sid :> now) @@ arg, Cardinality(DOMAIN active_sessions) + 1, now)
                       |-> ((sid :> NewSession("other", now)) @@ disk)[x]]
         /\ arg' = [x \in KeptOnCreate((sid :> now) @@ arg, Cardinality(DOMAIN active_sessions) + 1, now)
                      |-> ((sid :> now) @@ arg)[x]]
         /\ ev' = StoreEvent("create", sid)
    /\ used' = [used EXCEPT !.turns = @ + 1]
    /\ UNCHANGED << pc, res, now, out, maxStep >>

\* SessionManager.get_session; res tells whether a session was returned
GetSession ==
    /\ pc = "up" /\ used.turns < MaxStoreOps
    /\ \E sid \in StoreIds :
         /\ active_sessions' = get_session(active_sessions, disk, sid, now).mem
         /\ res' = get_session(active_sessions, disk, sid, now).found
         /\ ev' = StoreEvent("get", sid)
    /\ used' = [used EXCEPT !.turns = @ + 1]
    /\ UNCHANGED << pc, arg, disk, now, out, maxStep >>

\* SessionManager.end_session of a cached session: its file is written anew
EndStored ==
    /\ pc = "up" /\ used.turns < MaxStoreOps
    /\ \E sid \in DOMAIN active_sessions :
         /\ active_sessions' = [active_sessions EXCEPT ![sid] = end_session([mem |-> @, disk |-> @], now).mem]
         /\ disk' = (sid :> end_session([mem |-> active_sessions[sid], disk |-> active_sessions[sid]], now).disk) @@ disk
         /\ arg' = (sid :> now) @@ arg
         /\ ev' = StoreEvent("end", sid)
    /\ used' = [used EXCEPT !.turns = @ + 1]
    /\ UNCHANGED << pc, res, now, out, maxStep >>

\* the clock advances by a second or by a day
StoreTick ==
    /\ used.ticks < MaxTicks
    /\ \E d \in {1, Day} : now' = now + d
    /\ used' = [used EXCEPT !.ticks = @ + 1]
    /\ ev' = StoreEvent("tick", "")
    /\ UNCHANGED << pc, arg, res, active_sessions, disk, out, maxStep >>

NextStore == Construct \/ CreateSession \/ GetSession \/ EndStored \/ StoreTick

SpecStore == InitStore /\ [][NextStore]_vars

\* ----------------------------------------------------------------- report
\* In this part res holds the last report.  A frame carries heart_rate and
\* posture_score (in hundredths), FrameAbsent for a key the frame lacks; None
\* is the empty sequence and a frame f is << f >>.
MaxReportFrames == 2

ReportFrame(heart_rate, posture_score) == [heart_rate |-> heart_rate, posture_score |-> posture_score]

ReportFrames == { ReportFrame(h, p) : h \in {FrameAbsent, 60, 140}, p \in {FrameAbsent, 50, 90} }

\* posture - (hr / 100) of a frame, in hundredths
FrameScore(frame) ==
    (IF frame.posture_score = FrameAbsent THEN 0 ELSE frame.posture_score)
    - (IF frame.heart_rate = FrameAbsent THEN 100 ELSE frame.heart_rate)

\* max(scored_frames, key=score): the first frame of the greatest score
FirstMax(timeline) ==
    CHOOSE i \in 1..Len(timeline) :
      /\ \A j \in 1..Len(timeline) : FrameScore(timeline[j]) <= FrameScore(timeline[i])
      /\ \A j \in 1..(i - 1) : FrameScore(timeline[j]) < FrameScore(timeline[i])

\* a peak search that finds nothing
_find_peak_confidence_none(biometric_timeline) == << >>

\* CoachingEngine._find_peak_confidence
_find_peak_confidence(biometric_timeline) ==
    IF biometric_timeline = << >> THEN << >>
    ELSE << biometric_timeline[FirstMax(biometric_timeline)] >>

\* CoachingEngine.generate_vibe_report: the report's peak_confidence_frame
generate_vibe_report(session) ==
    IF session.mode \in {"interview", "public_speaking"} THEN [peak_confidence_frame |-> << >>]
    ELSE [peak_confidence_frame |-> _find_peak_confidence(session.biometric_timeline)]

NoReport == [peak_confidence_frame |-> << >>]

\* a new session of any mode, no report generated yet
InitReport ==
    /\ pc = "session" /\ arg = << >> /\ res = NoReport
    /\ \E mode \in Modes :
         /\ active_sessions = [sid \in SessionIds |-> NewSession(mode, 0)]
         /\ disk = [sid \in SessionIds |-> NewSession(mode, 0)]
    /\ now = 0
    /\ out = NoResponse
    /\ ev = NoEvent
    /\ used = NoUse
    /\ maxStep = NoTime

\* CoachingEngine.process_biometric: a sensor frame joins the timeline
SensorFrame ==
    \E sid \in DOMAIN active_sessions, frame \in ReportFrames :
      /\ pc = "session"
      /\ Len(active_sessions[sid].biometric_timeline) < MaxReportFrames
      /\ Commit(sid, Result(add_biometric_data(World(sid), frame), NoResponse), Event("biometric", sid, << >>, NoModel))
      /\ UNCHANGED << pc, arg, res, now, used >>

\* GET /api/session/{session_id}/report
GenerateReport ==
    \E sid \in DOMAIN active_sessions :
      /\ pc = "session"
      /\ res' = generate_vibe_report(active_sessions[sid])
      /\ pc' = "reported"
      /\ ev' = Event("report", sid, << >>, NoModel)
      /\ UNCHANGED << arg, active_sessions, disk, now, out, used, maxStep >>

NextReport == SensorFrame \/ GenerateReport

SpecReport == InitReport /\ [][NextReport]_vars

\* -------------------------------------------------------- two sessions
\* In this part pc and arg are per session: pc[sid] tells whether a turn of
\* the session awaits the model, arg[sid] is the event that turn serves.
PairIds == {"a", "b"}

\* the events (turns, frames, ends) explored from the initial state
MaxPairTurns == 3

\* one record written for every session id
StoredShared(sessions, session_id, session) == [x \in DOMAIN sessions |-> session]

\* self.active_sessions[session_id] = session, and the file of that id
Stored(sessions, session_id, session) == [sessions EXCEPT ![session_id] = session]

\* the state after a step on session sid that leaves the world w
PairCommit(sid, w, response, event) ==
    /\ active_sessions' = Stored(active_sessions, sid, w.mem)
    /\ disk' = Stored(disk, sid, w.disk)
    /\ out' = response
    /\ ev' = event
    /\ UNCHANGED << res, now, maxStep >>

\* the answers of the model to the turns of the two sessions
PairInference == {NoModel, [fail |-> FALSE, kind |-> "step", type |-> "", step |-> IntStep(1)]}

\* two new sessions, each tutoring or free-form
InitPair ==
    /\ pc = [sid \in PairIds |-> "idle"]
    /\ arg = [sid \in PairIds |-> NoEvent]
    /\ res = << >>
    /\ \E modes \in [PairIds -> {"tutoring", "other"}] :
         /\ active_sessions = [sid \in PairIds |-> NewSession(modes[sid], 0)]
         /\ disk = [sid \in PairIds |-> NewSession(modes[sid], 0)]
    /\ now = 0
    /\ out = NoResponse
    /\ ev = NoEvent
    /\ used = NoUse
    /\ maxStep = NoTime

\* process_text up to the call of the model
BeginText ==
    \E sid \in PairIds :
      /\ pc[sid] = "idle" /\ used.turns < MaxPairTurns
      /\ PairCommit(sid, process_text_begin(World(sid), TxtHello), NoResponse, Event("text", sid, TxtHello, NoModel))
      /\ pc' = [pc EXCEPT ![sid] = "awaiting"]
      /\ arg' = [arg EXCEPT ![sid] = Event("text", sid, TxtHello, NoModel)]
      /\ used' = [used EXCEPT !.turns = @ + 1]

\* process_audio up to the call of the model, or to its barge-in
BeginAudio ==
    \E sid \in PairIds, transcript \in {TxtHello, TxtUm} :
      /\ pc[sid] = "idle" /\ used.turns < MaxPairTurns
      /\ IF should_trigger(transcript, get_latest_biometric(active_sessions[sid]),
                           active_sessions[sid].barge_in_sensitivity) # NoTrigger
         THEN /\ PairCommit(sid, process_audio(World(sid), transcript, now, NoModel,
                                               CHOOSE x \in QuestionOutputs : ~x.ok, "fail").w,
                            process_audio(World(sid), transcript, now, NoModel,
                                          CHOOSE x \in QuestionOutputs : ~x.ok, "fail").response,
                            Event("audio", sid, transcript, NoModel))
              /\ UNCHANGED << pc, arg >>
         ELSE /\ PairCommit(sid, process_text_begin(World(sid), transcript), NoResponse,
                            Event("audio", sid, transcript, NoModel))
              /\ pc' = [pc EXCEPT ![sid] = "awaiting"]
              /\ arg' = [arg EXCEPT ![sid] = Event("audio", sid, transcript, NoModel)]
      /\ used' = [used EXCEPT !.turns = @ + 1]

\* the turn's reply once the model answered: process_audio adds the
\* assistant's interaction to what process_text returns
PairReply(event, r) == IF event.op = "audio" THEN AudioReply(r) ELSE r

\* the model answers and the turn of the session runs to its end
CompleteTurn ==
    \E sid \in PairIds, m \in PairInference :
      /\ pc[sid] = "awaiting"
      /\ PairCommit(sid, PairReply(arg[sid], process_text_complete(World(sid), m)).w,
                    PairReply(arg[sid], process_text_complete(World(sid), m)).response,
                    Event("reply", sid, arg[sid].text, m))
      /\ pc' = [pc EXCEPT ![sid] = "idle"]
      /\ arg' = [arg EXCEPT ![sid] = NoEvent]
      /\ UNCHANGED used

\* process_biometric, also while a turn of the session awaits the model
PairFrame ==
    \E sid \in PairIds, frame \in SessionFrames :
      /\ used.turns < MaxPairTurns
      /\ PairCommit(sid, add_biometric_data(World(sid), frame), NoResponse, Event("biometric", sid, << >>, NoModel))
      /\ used' = [used EXCEPT !.turns = @ + 1]
      /\ UNCHANGED << pc, arg >>

\* end_session and the report
PairEnd ==
    \E sid \in PairIds :
      /\ pc[sid] = "idle" /\ used.turns < MaxPairTurns
      /\ PairCommit(sid, EndWithReport(World(sid), now).w, EndWithReport(World(sid), now).response,
                    Event("end", sid, << >>, NoModel))
      /\ used' = [used EXCEPT !.turns = @ + 1]
      /\ UNCHANGED << pc, arg >>

NextPair == BeginText \/ BeginAudio \/ CompleteTurn \/ PairFrame \/ PairEnd

SpecPair == InitPair /\ [][NextPair]_vars

\* ------------------------------------------- overlapping interview turns
\* In this part two turns of one interview session run side by side: pc[k] is
\* the position of turn k (idle, evaluating, generating, done), arg[k] holds
\* what the turn keeps in local variables across its awaits, and res is the
\* question_count the session started with.
OverlapTurns == {1, 2}

NoLocals == [text |-> << >>, next_index |-> 0, section |-> "", surfaced |-> FALSE]

\* the answers the two candidates' turns carry
OverlapTexts == {TxtYes, TxtNo}

\* an interview session at some question of its interview stage, no turn started
InitOverlap ==
    /\ pc = [k \in OverlapTurns |-> "idle"]
    /\ arg = [k \in OverlapTurns |-> NoLocals]
    /\ \E n \in 0..ScriptTurns :
         /\ StartsAs(Scripted([mem |-> NewSession("interview", 0), disk |-> NewSession("interview", 0)], n))
         /\ Scripted([mem |-> NewSession("interview", 0), disk |-> NewSession("interview", 0)], n).mem.interview_state.stage
              = "interview"
         /\ res = Scripted([mem |-> NewSession("interview", 0), disk |-> NewSession("interview", 0)], n).mem.interview_state.question_count
    /\ now = 0
    /\ out = NoResponse
    /\ ev = NoEvent
    /\ used = NoUse
    /\ maxStep = NoTime

\* _handle_interview_flow of an answer up to the await of its evaluation
AnswerReceived(w1, state, t) ==
    IF _should_end_interview(state, t) THEN EndWithReport(w1, t) ELSE Result(w1, NoResponse)

StartAnswer ==
    \E k \in OverlapTurns, sid \in DOMAIN active_sessions, text \in OverlapTexts :
      /\ pc[k] = "idle"
      /\ Commit(sid, AnswerReceived(add_interaction(World(sid), Interaction("", "user", text)),
                                    active_sessions[sid].interview_state, now),
                Event("text", sid, text, NoModel))
      /\ pc' = [pc EXCEPT ![k] = IF _should_end_interview(active_sessions[sid].interview_state, now)
                                 THEN "done" ELSE "evaluating"]
      /\ arg' = [arg EXCEPT ![k].text = text]
      /\ UNCHANGED << res, now, used >>

\* the state from which the next question is asked after the evaluation
StateToAsk(state, t) ==
    IF TimedOut(state, t) THEN [state EXCEPT !.hint_used = TRUE] ELSE state

\* whether _ask_next_interview_question awaits the model for its question
AwaitsQuestion(state, t) ==
    ~_should_end_interview(state, t) /\ _section_for_question(state.question_count) = "technical"

\* the evaluation arrived: the turn hints, ends the session, asks a canned
\* question, or reads question_count and awaits the model for a question
AnswerEvaluated ==
    \E k \in OverlapTurns, sid \in DOMAIN active_sessions, e \in EvaluationOutputs :
      /\ pc[k] = "evaluating"
      /\ IF HintDue(active_sessions[sid].interview_state, arg[k].text, now, e)
         THEN /\ Commit(sid, Result(SetInterview(World(sid), [active_sessions[sid].interview_state
                                                               EXCEPT !.hint_used = TRUE]),
                                    _interview_prompt(Str("Hint"))),
                        Event("hint", sid, arg[k].text, NoModel))
              /\ pc' = [pc EXCEPT ![k] = "done"]
              /\ UNCHANGED arg
         ELSE IF AwaitsQuestion(StateToAsk(active_sessions[sid].interview_state, now), now)
         THEN /\ Commit(sid, Result(IF StateToAsk(active_sessions[sid].interview_state, now)
                                       = active_sessions[sid].interview_state
                                    THEN World(sid)
                                    ELSE SetInterview(World(sid), StateToAsk(active_sessions[sid].interview_state, now)),
                                    NoResponse),
                        Event("evaluated", sid, arg[k].text, NoModel))
              /\ pc' = [pc EXCEPT ![k] = "generating"]
              /\ arg' = [arg EXCEPT ![k].next_index = active_sessions[sid].interview_state.question_count,
                                    ![k].section = _section_for_question(active_sessions[sid].interview_state.question_count)]
         ELSE /\ Commit(sid, AskFrom(World(sid), StateToAsk(active_sessions[sid].interview_state, now), now,
                                     CHOOSE x \in QuestionOutputs : ~x.ok),
                        Event("asked", sid, arg[k].text, NoModel))
              /\ pc' = [pc EXCEPT ![k] = "done"]
              /\ arg' = [arg EXCEPT ![k].surfaced =
                           ~_should_end_interview(StateToAsk(active_sessions[sid].interview_state, now), now)]
      /\ UNCHANGED << res, now, used >>

\* the question arrived: the turn writes question_count from the index it
\* read before the await, into the state the session has now
QuestionGenerated ==
    \E k \in OverlapTurns, sid \in DOMAIN active_sessions, q \in QuestionOutputs :
      /\ pc[k] = "generating"
      /\ Commit(sid, SurfaceQuestion(World(sid), active_sessions[sid].interview_state, now,
                                     arg[k].next_index, arg[k].section,
                                     _generate_interview_question(active_sessions[sid].interview_state,
                                                                  arg[k].section, arg[k].next_index, q)),
                Event("asked", sid, arg[k].text, NoModel))
      /\ pc' = [pc EXCEPT ![k] = "done"]
      /\ arg' = [arg EXCEPT ![k].surfaced = TRUE]
      /\ UNCHANGED << res, now, used >>

NextOverlap == StartAnswer \/ AnswerEvaluated \/ QuestionGenerated

SpecOverlap == InitOverlap /\ [][NextOverlap]_vars

\* ------------------------------------------------------ biometric baseline
\* In this part a session receives sensor frames only; res is the baseline the
\* session had when it was first derived (None before).
MaxBaselineFrames == 12

\* frames that carry a heart rate, or none
HeartFrames == { ReportFrame(h, FrameAbsent) : h \in {FrameAbsent, 90} }

InitBaseline ==
    /\ pc = "session" /\ arg = << >> /\ res = NoBaseline
    /\ active_sessions = [sid \in SessionIds |-> NewSession("tutoring", 0)]
    /\ disk = [sid \in SessionIds |-> NewSession("tutoring", 0)]
    /\ now = 0
    /\ out = NoResponse
    /\ ev = NoEvent
    /\ used = NoUse
    /\ maxStep = NoTime

\* CoachingEngine.process_biometric: a sensor frame joins the timeline
HeartFrame ==
    \E sid \in DOMAIN active_sessions, frame \in HeartFrames :
      /\ Len(active_sessions[sid].biometric_timeline) < MaxBaselineFrames
      /\ Commit(sid, Result(add_biometric_data(World(sid), frame), NoResponse), Event("biometric", sid, << >>, NoModel))
      /\ res' = IF res.present THEN res ELSE add_biometric_data(World(sid), frame).mem.biometric_baseline
      /\ UNCHANGED << pc, arg, now, used >>

SpecBaseline == InitBaseline /\ [][HeartFrame]_vars

\* ------------------------------------------------------- discussion points
\* In this part arg is a session's context_history and res the discussion
\* points extracted from it.
HistoryWindow == 30

MaxPoints == 4

PointLimit == 140

PointKept == 137

MaxPointTail == 3

\* a content of more than 140 characters
LongContent == [ i \in 1..(PointLimit + 1) |-> "a" ]

\* " ".join(content.split()) cut to 137 characters and "..." when longer than 140
NormalizedPoint(normalized) ==
    IF Len(normalized) > PointLimit THEN SubSeq(normalized, 1, PointKept) \o << ".", ".", "." >>
    ELSE normalized

\* the loop of _extract_discussion_points over the entries left, points found so far
RECURSIVE PointsFrom(_, _, _)
PointsFrom(entries, points, max_points) ==
    IF entries = << >> THEN points
    ELSE IF Head(entries).role # "user" \/ Strip(Head(entries).content) = << >>
    THEN PointsFrom(Tail(entries), points, max_points)
    ELSE IF \E k \in 1..Len(points) : points[k] = NormalizedPoint(Collapse(Head(entries).content))
    THEN PointsFrom(Tail(entries), points, max_points)
    ELSE IF Len(points) + 1 >= max_points
    THEN Append(points, NormalizedPoint(Collapse(Head(entries).content)))
    ELSE PointsFrom(Tail(entries), Append(points, NormalizedPoint(Collapse(Head(entries).content))), max_points)

\* CoachingEngine._extract_discussion_points of a session's context_history
_extract_discussion_points(history, max_points) ==
    PointsFrom(LastN(history, HistoryWindow), << >>, max_points)

\* n earlier user turns of distinct contents
EarlierTurns(n) == [ i \in 1..n |-> HistoryEntry("user", << ToString(i) >>) ]

PointEntries ==
    { HistoryEntry("user", << "a" >>), HistoryEntry("user", << "b" >>),
      HistoryEntry("user", << " ", "a", " ", " ", "b", " " >>), HistoryEntry("user", << " " >>),
      HistoryEntry("user", LongContent), HistoryEntry("assistant", << "c" >>) }

PointInputs ==
    { EarlierTurns(n) \o tail : n \in {0, 2, HistoryWindow - 1}, tail \in SeqsUpTo(PointEntries, MaxPointTail) }

PointsInit == pc = "input" /\ arg \in PointInputs /\ res = << >> /\ Idle

ExtractPoints ==
    /\ pc = "input"
    /\ res' = _extract_discussion_points(arg, MaxPoints)
    /\ pc' = "done"
    /\ UNCHANGED arg /\ IdleUnchanged

SpecPoints == PointsInit /\ [][ExtractPoints]_vars

\* ----------------------------------------------------- sessions of any mode
\* a session of any mode, new or after some scripted turns, and the events
\* it can receive
SpecModes == InitFailure /\ [][NextFree]_vars

\* ------------------------------------------------------ interview questions
\* an interview followed from its creation to its end and past it; res
\* counts the questions surfaced to the user, arg the answers the user gave
\* since the first question, and pc tells whether a BEGIN_INTERVIEW command
\* arrived after the first question
MaxAnswers == 16

\* the events besides the candidate's typed turns (a spoken turn, a
\* BEGIN_INTERVIEW command, an end_session message, a pause) that one
\* interview is followed through
MaxDetours == 1

Detours == used.ticks + used.audio + used.begin + used.end

\* what the candidate types: the same short reply to every prompt and
\* question (how it is evaluated is the model's choice), or a command
CandidateTexts == {TxtYes, TxtBegin, TxtBeginJD}

\* the response surfaces an interview question of the session's state
IsQuestion(response, state) ==
    /\ response.type = "coach_response"
    /\ state.question_count > 0
    /\ response.voice_text = state.current_question
    /\ response.voice_text # << >>

\* the user's turn answers a question: a question was surfaced, the
\* interview stage is on and the text is no command
IsAnswer(state, text) ==
    state.question_count > 0 /\ state.stage = "interview" /\ ~IsCommand(text)

QuestionsInit ==
    /\ pc = "session" /\ arg = 0 /\ res = 0
    /\ \E n \in 0..ScriptTurns :
         /\ StartsAs(Scripted([mem |-> NewSession("interview", 0), disk |-> NewSession("interview", 0)], n))
         /\ active_sessions["s1"].interview_state.stage = "ready"
         /\ active_sessions["s1"].interview_state.question_count = 0
    /\ now = 0
    /\ out = NoResponse
    /\ ev = NoEvent
    /\ used = NoUse
    /\ maxStep = NoTime

\* the state after a turn of the interview with result r
QuestionCommit(sid, r, event) ==
    /\ Commit(sid, r, event)
    /\ res' = IF IsQuestion(r.response, r.w.mem.interview_state) THEN res + 1 ELSE res
    /\ arg' = IF event.op \in {"text", "audio"} /\ IsAnswer(active_sessions[sid].interview_state, event.text)
              THEN arg + 1 ELSE arg
    /\ pc' = IF IsBegin(event.text) /\ active_sessions[sid].interview_state.question_count > 0
             THEN "restarted" ELSE pc
    /\ UNCHANGED now

\* main.py, messages "text" and "user_speech", in an interview
QuestionText ==
    \E sid \in DOMAIN active_sessions :
      \E text \in CandidateTexts, inf \in InferenceOf(active_sessions[sid]) :
        /\ arg < MaxAnswers
        /\ IsCommand(text) => Detours < MaxDetours
        /\ QuestionCommit(sid, process_text(World(sid), text, now, inf.m, inf.q, inf.e),
                          Event("text", sid, text, inf.m))
        /\ used' = [used EXCEPT !.begin = IF IsCommand(text) THEN @ + 1 ELSE @]

\* CoachingEngine.process_audio in an interview
QuestionAudio ==
    \E sid \in DOMAIN active_sessions :
      \E text \in TranscriptsOf("interview"), inf \in InferenceOf(active_sessions[sid]) :
        /\ arg < MaxAnswers
        /\ Detours < MaxDetours
        /\ QuestionCommit(sid, process_audio(World(sid), text, now, inf.m, inf.q, inf.e),
                          Event("audio", sid, text, inf.m))
        /\ used' = [used EXCEPT !.audio = @ + 1]

\* main.py, message "end_session", in an interview
QuestionEnd ==
    \E sid \in DOMAIN active_sessions :
      /\ Detours < MaxDetours
      /\ QuestionCommit(sid, EndWithReport(World(sid), now), Event("end", sid, << >>, NoModel))
      /\ used' = [used EXCEPT !.end = @ + 1]

\* the clock advances between the events of the interview
QuestionTick ==
    \E d \in TickSteps :
      /\ Detours < MaxDetours
      /\ now' = now + d
      /\ used' = [used EXCEPT !.ticks = @ + 1]
      /\ ev' = Event("tick", "", << >>, NoModel)
      /\ UNCHANGED << pc, arg, res, active_sessions, disk, out, maxStep >>

QuestionsNext == QuestionText \/ QuestionAudio \/ QuestionEnd \/ QuestionTick

SpecQuestions == QuestionsInit /\ [][QuestionsNext]_vars

\* ------------------------------------------------------ barge-ins counted
\* In this part res counts the barge-in responses issued to the session and
\* arg holds the barge_in_count of the last report (NoTime before one).

\* generate_vibe_report, _generate_interview_report and
\* _generate_public_speaking_report: the report's barge_in_count
ReportBargeInCount(session) ==
    IF session.mode \in {"interview", "public_speaking"} THEN 0
    ELSE Cardinality({ i \in DOMAIN session.interactions : session.interactions[i].type = "barge_in" })

\* the world after a spoken turn that was answered with a barge-in and n
\* entries of a dialogue added after it, none compressed
BargedThenFilled(n) ==
    LET w == process_audio([mem |-> NewSession("tutoring", 0), disk |-> NewSession("tutoring", 0)],
                           TxtUm, 0, NoModel, CHOOSE x \in QuestionOutputs : ~x.ok, "fail").w
        session == [w.mem EXCEPT
                      !.interactions = @ \o [k \in 1..n |-> ScriptEntry(k)],
                      !.context_history = @ \o [k \in 1..n |-> HistoryEntry(ScriptEntry(k).role, ScriptEntry(k).content)]]
    IN [mem |-> session, disk |-> session]

\* a new session of any mode, or a tutoring session after one barge-in and
\* a dialogue
CountInit ==
    /\ pc = "session" /\ arg = NoTime
    /\ \/ /\ res = 0
          /\ \E mode \in Modes :
               StartsAs([mem |-> NewSession(mode, 0), disk |-> NewSession(mode, 0)])
       \/ /\ res = 1
          /\ \E n \in PrefillLengths : n < CompressInteractions /\ StartsAs(BargedThenFilled(n))
    /\ now = 0
    /\ out = NoResponse
    /\ ev = NoEvent
    /\ used = NoUse
    /\ maxStep = NoTime

\* the state after an event with result r: a barge-in response is counted,
\* and a session_ended response carries the report of the ended session
CountCommit(sid, r, event) ==
    /\ Commit(sid, r, event)
    /\ res' = IF r.response.type = "barge_in" THEN res + 1 ELSE res
    /\ arg' = IF r.response.type = "session_ended" THEN ReportBargeInCount(r.w.mem) ELSE arg
    /\ UNCHANGED << pc, now >>

\* main.py, messages "text" and "user_speech"
CountText ==
    \E sid \in DOMAIN active_sessions :
      \E text \in TextsOf(active_sessions[sid].mode), inf \in InferenceOf(active_sessions[sid]) :
        /\ used.turns < MaxTurns
        /\ CountCommit(sid, process_text(World(sid), text, now, inf.m, inf.q, inf.e),
                       Event("text", sid, text, inf.m))
        /\ used' = [used EXCEPT !.turns = @ + 1]

\* CoachingEngine.process_audio
CountAudio ==
    \E sid \in DOMAIN active_sessions :
      \E text \in TranscriptsOf(active_sessions[sid].mode), inf \in InferenceOf(active_sessions[sid]) :
        /\ used.audio < MaxAudio
        /\ CountCommit(sid, process_audio(World(sid), text, now, inf.m, inf.q, inf.e),
                       Event("audio", sid, text, inf.m))
        /\ used' = [used EXCEPT !.audio = @ + 1]

\* main.py, message "end_session" and POST /api/session/end
CountEnd ==
    \E sid \in DOMAIN active_sessions :
      /\ used.end < MaxEnd
      /\ CountCommit(sid, EndWithReport(World(sid), now), Event("end", sid, << >>, NoModel))
      /\ used' = [used EXCEPT !.end = @ + 1]

CountNext == CountText \/ CountAudio \/ CountEnd

SpecCount == CountInit /\ [][CountNext]_vars

\* ------------------------------------------------- operations by session id
\* In this part the cache and the files hold the sessions of some ids only,
\* and every operation is called with an id; res holds what
\* get_latest_biometric returned last.
MaxIdOps == 2

CallerIds == {"s1", "s2"}

\* the cache, the files and the response after an operation called with an id
Outcome(mem, dsk, response) == [mem |-> mem, disk |-> dsk, response |-> response]

\* the outcome of an operation that ran on the cached session session_id
\* with result r
OnCached(mem, dsk, session_id, r) ==
    Outcome((session_id :> r.w.mem) @@ mem, (session_id :> r.w.disk) @@ dsk, r.response)

\* {"type": "error", "message": f"Session {session_id} not found"}
SessionNotFound(session_id) == ErrorPayload(<< "Session ", session_id, " not found" >>)

\* the world of session_id once get_session cached it
WorldOf(mem, dsk, session_id) == [mem |-> mem[session_id], disk |-> dsk[session_id]]

\* CoachingEngine.process_text called with session_id
process_text_by_id(mem, dsk, session_id, text, t, inf) ==
    IF ~get_session(mem, dsk, session_id, t).found
    THEN Outcome(get_session(mem, dsk, session_id, t).mem, dsk, SessionNotFound(session_id))
    ELSE OnCached(get_session(mem, dsk, session_id, t).mem, dsk, session_id,
                  process_text(WorldOf(get_session(mem, dsk, session_id, t).mem, dsk, session_id),
                               text, t, inf.m, inf.q, inf.e))

\* CoachingEngine.process_audio called with session_id
process_audio_by_id(mem, dsk, session_id, transcript, t, inf) ==
    IF ~get_session(mem, dsk, session_id, t).found
    THEN Outcome(get_session(mem, dsk, session_id, t).mem, dsk, SessionNotFound(session_id))
    ELSE OnCached(get_session(mem, dsk, session_id, t).mem, dsk, session_id,
                  process_audio(WorldOf(get_session(mem, dsk, session_id, t).mem, dsk, session_id),
                                transcript, t, inf.m, inf.q, inf.e))

\* SessionManager.add_interaction called with session_id
add_interaction_by_id(mem, dsk, session_id, interaction) ==
    IF session_id \notin DOMAIN mem THEN Outcome(mem, dsk, NoResponse)
    ELSE OnCached(mem, dsk, session_id,
                  Result(add_interaction(WorldOf(mem, dsk, session_id), interaction), NoResponse))

\* SessionManager.add_biometric_data called with session_id
add_biometric_data_by_id(mem, dsk, session_id, biometric_data) ==
    IF session_id \notin DOMAIN mem THEN Outcome(mem, dsk, NoResponse)
    ELSE OnCached(mem, dsk, session_id,
                  Result(add_biometric_data(WorldOf(mem, dsk, session_id), biometric_data), NoResponse))

\* SessionManager.end_session called with session_id
end_session_by_id(mem, dsk, session_id, t) ==
    IF session_id \notin DOMAIN mem THEN Outcome(mem, dsk, NoResponse)
    ELSE OnCached(mem, dsk, session_id, Result(end_session(WorldOf(mem, dsk, session_id), t), NoResponse))

\* SessionManager._save_session called with session_id
_save_session_by_id(mem, dsk, session_id) ==
    IF session_id \notin DOMAIN mem THEN Outcome(mem, dsk, NoResponse)
    ELSE OnCached(mem, dsk, session_id, Result(_save_session(WorldOf(mem, dsk, session_id)), NoResponse))

\* SessionManager.get_latest_biometric called with session_id
get_latest_biometric_by_id(mem, session_id) ==
    IF session_id \notin DOMAIN mem THEN NoBiometric ELSE get_latest_biometric(mem[session_id])

\* the session whose mode tells what a caller sends with the id
SessionOf(session_id) ==
    IF session_id \in DOMAIN active_sessions THEN active_sessions[session_id]
    ELSE IF session_id \in DOMAIN disk THEN disk[session_id]
    ELSE NewSession("other", 0)

\* one session cached and stored; the other id is unknown, or is the id of
\* a session that an earlier process stored
IdInit ==
    /\ pc = "session" /\ arg = << >> /\ res = NoBiometric
    /\ \E mode \in Modes :
         /\ active_sessions = ("s1" :> NewSession(mode, 0))
         /\ \/ disk = ("s1" :> NewSession(mode, 0))
            \/ disk = ("s1" :> NewSession(mode, 0)) @@ ("s2" :> NewSession("other", 0))
    /\ now = 0
    /\ out = NoResponse
    /\ ev = NoEvent
    /\ used = NoUse
    /\ maxStep = NoTime

\* the state after the operation op called with sid, with outcome o
IdCommit(op, sid, text, o) ==
    /\ used.turns < MaxIdOps
    /\ active_sessions' = o.mem
    /\ disk' = o.disk
    /\ out' = o.response
    /\ ev' = Event(op, sid, text, NoModel)
    /\ used' = [used EXCEPT !.turns = @ + 1]
    /\ UNCHANGED << pc, arg, now, maxStep >>

IdText ==
    \E sid \in CallerIds :
      \E text \in TextsOf(SessionOf(sid).mode), inf \in InferenceOf(SessionOf(sid)) :
        /\ IdCommit("text", sid, text, process_text_by_id(active_sessions, disk, sid, text, now, inf))
        /\ UNCHANGED res

IdAudio ==
    \E sid \in CallerIds :
      \E text \in TranscriptsOf(SessionOf(sid).mode), inf \in InferenceOf(SessionOf(sid)) :
        /\ IdCommit("audio", sid, text, process_audio_by_id(active_sessions, disk, sid, text, now, inf))
        /\ UNCHANGED res

IdAddInteraction ==
    \E sid \in CallerIds :
      /\ IdCommit("add", sid, << >>,
                  add_interaction_by_id(active_sessions, disk, sid, Interaction("", "user", TxtHello)))
      /\ UNCHANGED res

IdBiometric ==
    \E sid \in CallerIds, frame \in SessionFrames :
      /\ IdCommit("biometric", sid, << >>, add_biometric_data_by_id(active_sessions, disk, sid, frame))
      /\ UNCHANGED res

IdEnd ==
    \E sid \in CallerIds :
      /\ IdCommit("end", sid, << >>, end_session_by_id(active_sessions, disk, sid, now))
      /\ UNCHANGED res

IdSave ==
    \E sid \in CallerIds :
      /\ IdCommit("save", sid, << >>, _save_session_by_id(active_sessions, disk, sid))
      /\ UNCHANGED res

IdLatest ==
    \E sid \in CallerIds :
      /\ IdCommit("latest", sid, << >>, Outcome(active_sessions, disk, NoResponse))
      /\ res' = get_latest_biometric_by_id(active_sessions, sid)

IdNext == IdText \/ IdAudio \/ IdAddInteraction \/ IdBiometric \/ IdEnd \/ IdSave \/ IdLatest

SpecIds == IdInit /\ [][IdNext]_vars

\* ------------------------------------------------------------ properties
IsTurn(event) == event.op \in {"text", "audio"}

IsPrefix(a, b) == Len(a) <= Len(b) /\ SubSeq(b, 1, Len(a)) = a

\* C1: over any sequence of tutoring turns tutoring_step never decreases, and
\* every kind-step response carries a step strictly greater than that of
\* every earlier kind-step response of the session.
C1_StepsStrictlyIncrease ==
    [][\A sid \in DOMAIN active_sessions :
         /\ active_sessions'[sid].tutoring_step >= active_sessions[sid].tutoring_step
         /\ (IsTurn(ev') /\ out'.kind = "step") => out'.step.val > maxStep]_vars

\* C2: over any sequence of inbound texts on an interview session
\* interview_state.question_count never decreases.
C2_QuestionCountNeverDecreases ==
    [][\A sid \in DOMAIN active_sessions :
         active_sessions'[sid].interview_state.question_count
           >= active_sessions[sid].interview_state.question_count]_vars

\* a BEGIN_INTERVIEW command was handled after all ten questions were asked
C2_Witness ==
    \E sid \in DOMAIN active_sessions :
      /\ ev.op = "text" /\ IsBegin(ev.text)
      /\ active_sessions[sid].interview_state.question_count = MaxQuestions

\* C3: in a tutoring turn with current step N, when the model's instructional
\* turn (kind step or check_in) proposes a step that is not an integer greater
\* than N the response carries N+1, and a proposed integer greater than N is
\* returned unchanged.
C3_ProposedStepEnforced ==
    [][\A sid \in DOMAIN active_sessions :
         ( /\ IsTurn(ev') /\ ev'.sid = sid
           /\ active_sessions[sid].mode = "tutoring"
           /\ ~ev'.m.fail /\ ev'.m.kind \in {"step", "check_in"}
           /\ out'.type # "barge_in" )
         => out'.step = IF ev'.m.step.int /\ ev'.m.step.val > active_sessions[sid].tutoring_step
                        THEN ev'.m.step
                        ELSE IntStep(active_sessions[sid].tutoring_step + 1)]_vars

\* the roles of a history or of the interactions
Roles(h) == [k \in 1..Len(h) |-> h[k].role]

\* C4: every successful text or transcript turn appends exactly one user
\* entry followed by exactly one assistant entry to context_history and to
\* interactions.
C4_OneUserOneAssistantPerTurn ==
    [][\A sid \in DOMAIN active_sessions :
         (IsTurn(ev') /\ ev'.sid = sid /\ out'.type \notin {"error", "barge_in"})
         => /\ IsPrefix(active_sessions[sid].context_history, active_sessions'[sid].context_history)
            /\ Roles(active_sessions'[sid].context_history)
                 = Roles(active_sessions[sid].context_history) \o << "user", "assistant" >>
            /\ IsPrefix(active_sessions[sid].interactions, active_sessions'[sid].interactions)
            /\ Roles(active_sessions'[sid].interactions)
                 = Roles(active_sessions[sid].interactions) \o << "user", "assistant" >>]_vars

\* the part of a session that C5 says is frozen once end_time is set
Frozen(session) ==
    << session.end_time, session.context_history, session.interactions, session.tutoring_step,
       session.interview_state.stage, session.interview_state.question_count,
       session.public_speaking_state.stage, session.public_speaking_state.word_count,
       session.public_speaking_state.filler_count, session.public_speaking_state.pause_count >>

\* C5: once end_time is set no later event changes end_time, context_history,
\* interactions, tutoring_step or the mode sub-state.
C5_EndedSessionIsFrozen ==
    [][\A sid \in DOMAIN active_sessions :
         active_sessions[sid].end_time # NoTime
         => Frozen(active_sessions'[sid]) = Frozen(active_sessions[sid])]_vars

\* C6: the user turn (other than a BEGIN_INTERVIEW command) that arrives in
\* the interview stage when question_count is max_questions, or when 15
\* minutes or more have passed since start_time, returns session_ended.
C6_InterviewEndsAtLimits ==
    [][\A sid \in DOMAIN active_sessions :
         LET st == active_sessions[sid].interview_state
         IN ( /\ IsTurn(ev') /\ ev'.sid = sid /\ ~IsBegin(ev'.text)
              /\ st.stage = "interview"
              /\ \/ st.question_count = MaxQuestions
                 \/ st.start_time # NoTime /\ now - st.start_time >= MaxMinutes * 60 )
            => out'.type = "session_ended"]_vars

\* the section schedule as the specification states it
C7_Schedule(i) ==
    IF i = 0 THEN "warmup"
    ELSE IF i \in 1..2 THEN "background"
    ELSE IF i \in 3..6 THEN "technical"
    ELSE IF i \in 7..8 THEN "behavioral"
    ELSE "wrapup"

C7_Rank(section) ==
    CASE section = "" -> 0 [] section = "warmup" -> 1 [] section = "background" -> 2
      [] section = "technical" -> 3 [] section = "behavioral" -> 4 [] section = "wrapup" -> 5

\* C7: a question surfaced at index i sets current_section to schedule(i),
\* and the section never returns to an earlier one.
C7_SectionFollowsSchedule ==
    [][\A sid \in DOMAIN active_sessions :
         LET st == active_sessions[sid].interview_state
             st2 == active_sessions'[sid].interview_state
         IN /\ st2.question_count = st.question_count + 1
                 => /\ st2.current_section = C7_Schedule(st.question_count)
                    /\ out'.voice_text = st2.current_question
            /\ C7_Rank(st2.current_section) >= C7_Rank(st.current_section)]_vars

\* the wrap-up question (index 9) was surfaced by a turn
C7_Witness ==
    \E sid \in DOMAIN active_sessions :
      /\ IsTurn(ev)
      /\ active_sessions[sid].interview_state.question_count = MaxQuestions
      /\ active_sessions[sid].interview_state.current_section = "wrapup"
      /\ out.voice_text = active_sessions[sid].interview_state.current_question

\* C8: for every input the normalizer returns a string that contains exactly
\* one '?', which is its last character.
C8_ExactlyOneQuestionMark ==
    pc = "done" => /\ Count(res, << "?" >>) = 1
                   /\ res[Len(res)] = "?"

\* the signals that C9 describes, from the transcript and the frame
C9_Signals(input) ==
    LET b == input.biometric_data
    IN (IF SumCounts(Lower(input.transcript), FillerWords) >= 3 THEN {"filler_words"} ELSE {})
       \cup (IF b.present /\ b.stress_level = "high" THEN {"stress_spike"} ELSE {})
       \cup (IF b.present /\ (Abs(b.gaze_direction[1]) > 5 \/ Abs(b.gaze_direction[2]) > 5)
             THEN {"gaze_away"} ELSE {})

\* C9: the detector triggers iff the number of raised signals reaches the
\* threshold; trigger_type is combined for several signals and else the
\* signal's name; at sensitivity 0.7 three fillers always trigger, at
\* sensitivity 0 only the three signals together do.
C9_TriggerIffThreshold ==
    pc = "done" =>
      LET signals == C9_Signals(arg)
          n == Cardinality(signals)
          fired == res # NoTrigger
      IN /\ fired <=> n >= BargeThreshold(arg.sensitivity)
         /\ fired => /\ n > 1 => res.trigger_type = "combined"
                     /\ n = 1 => res.trigger_type \in signals
                     /\ n >= 1
         /\ (arg.sensitivity = 7 /\ "filler_words" \in signals) => fired
         /\ arg.sensitivity = 0 => (fired <=> n = 3)

\* three fillers alone trigger at sensitivity 0.7
C9_Witness ==
    /\ pc = "done" /\ arg.sensitivity = 7 /\ ~arg.biometric_data.present
    /\ res.trigger_type = "filler_words"

\* C10: the history entries of the interactions added so far are read back
\* from context_history in the order added; no step reorders, edits or
\* removes an entry of context_history, nor one of interactions unless
\* compression replaces them by a summary and the last entries.
C10_HistoryAppendOnly ==
    /\ [](\A sid \in DOMAIN active_sessions : active_sessions[sid].context_history = arg)
    /\ [][\A sid \in DOMAIN active_sessions :
            LET old == active_sessions[sid].interactions
                new == active_sessions'[sid].interactions
            IN /\ IsPrefix(active_sessions[sid].context_history, active_sessions'[sid].context_history)
               /\ \/ IsPrefix(old, new)
                  \/ /\ active_sessions'[sid].context_compressed
                     /\ new[1].type = "context_summary"
                     /\ \/ Tail(new) = LastN(old, KeepRecent)
                        \/ Tail(new) = LastN(Append(old, new[Len(new)]), KeepRecent)]_vars

\* more entries than the compression limit were added, compression has
\* happened, and the history still holds them all
C10_Witness ==
    \E sid \in DOMAIN active_sessions :
      /\ active_sessions[sid].context_compressed
      /\ Len(arg) > CompressInteractions
      /\ active_sessions[sid].context_history = arg

\* a step in which compression replaced the interactions of the session
CompressionEvent(sid) ==
    /\ active_sessions'[sid].context_compressed
    /\ ~IsPrefix(active_sessions[sid].interactions, active_sessions'[sid].interactions)

\* C11: immediately after a compression event context_history has exactly 21
\* entries, a summary record followed by the last 20 entries that preceded
\* the compression, in their order.
C11_CompressedHistoryHas21 ==
    [][\A sid \in DOMAIN active_sessions :
         CompressionEvent(sid)
         => /\ Len(active_sessions'[sid].context_history) = KeepRecent + 1
            /\ LastN(active_sessions'[sid].context_history, KeepRecent) = LastN(arg', KeepRecent)]_vars

RECURSIVE EmbedsFrom(_, _, _, _)
\* the history entries h[i..] have interactions of the same role and content
\* among x[j..], in the same order
EmbedsFrom(h, x, i, j) ==
    IF i > Len(h) THEN TRUE
    ELSE IF Len(x) - j < Len(h) - i THEN FALSE
    ELSE IF \A k \in 0..(Len(h) - i) : x[j + k].role = h[i + k].role /\ x[j + k].content = h[i + k].content
    THEN TRUE
    ELSE IF x[j].role = h[i].role /\ x[j].content = h[i].content
    THEN EmbedsFrom(h, x, i + 1, j + 1)
    ELSE EmbedsFrom(h, x, i, j + 1)

\* C12: in every reachable state each context_history entry has an
\* interactions entry of the same role and content, in the same relative
\* order, so interactions is at least as long as context_history.
C12_InteractionsCoverHistory ==
    \A sid \in DOMAIN active_sessions :
      /\ Len(active_sessions[sid].interactions) >= Len(active_sessions[sid].context_history)
      /\ EmbedsFrom(active_sessions[sid].context_history, active_sessions[sid].interactions, 1, 1)

\* C13: a session id unknown to the store (neither cached nor on disk),
\* presented on a channel, is answered with a payload of type error, and the
\* channel stays open for further messages.
C13_UnknownIdKeepsChannelOpen ==
    [][(pc = "accepted" /\ ev.sid \notin DOMAIN active_sessions /\ ev.sid \notin DOMAIN disk)
         => (out'.type = "error" /\ pc' = "open")]_vars

\* a message the loop must reject: no JSON, no object, no type, a type the
\* loop does not route, a transcript or payload that is no text or is empty
\* once trimmed, a biometric payload that is no object
C14_Blank(value) == value.kind # "string" \/ Strip(value.text) = << >>

C14_Malformed(message) ==
    \/ message.json # "object"
    \/ message.type \notin {"user_speech", "text", "biometric_data", "end_session"}
    \/ message.type = "user_speech" /\ C14_Blank(message.transcript)
    \/ message.type = "text" /\ C14_Blank(message.payload)
    \/ message.type = "biometric_data" /\ message.data = "other"

\* C14: every unknown or malformed message received on an open channel is
\* answered with a payload of type error, leaves the cached and the saved
\* session unchanged, and leaves the channel open.
C14_MalformedMessageRejected ==
    [][(pc = "open" /\ C14_Malformed(arg'))
         => /\ out'.type = "error"
            /\ active_sessions' = active_sessions /\ disk' = disk
            /\ pc' = "open"]_vars

\* a malformed message was rejected on a channel whose session had a turn
C14_Witness ==
    /\ pc = "open" /\ ev.op = "message" /\ C14_Malformed(arg)
    /\ out.type = "error"
    /\ Len(active_sessions[ev.sid].interactions) > 0

\* the fields of a tutoring step
C15_TutoringSchema == {"kind", "step", "subtopic_id", "narration", "visual", "avatar_intent"}

\* the last event was a turn that reached the model (no barge-in replaced it)
C15_FailedTurn == IsTurn(ev) /\ out.type # "barge_in"

\* C15: in every mode and at every stage, a turn whose calls to the model
\* fail (exception, empty or unparsable reply) returns a payload of the mode's
\* schema: a tutoring session a step with its number and the fields of a
\* step, any other session a coach_response or a session_ended; never a
\* payload of type error.
C15_FailedInferenceKeepsSchema ==
    C15_FailedTurn
    => /\ out.type # "error"
       /\ active_sessions[ev.sid].mode = "tutoring"
            => /\ out.kind = "step" /\ out.step.int /\ out.step.val >= 1
               /\ C15_TutoringSchema \subseteq FailedTurnKeys("tutoring", ev.m)
       /\ active_sessions[ev.sid].mode # "tutoring"
            => /\ out.type \in {"coach_response", "session_ended"}
               /\ ~Staged(active_sessions[ev.sid])
                    => {"type", "voice_text"} \subseteq FailedTurnKeys(active_sessions[ev.sid].mode, ev.m)

\* a tutoring turn got no parsable reply from the model and returned a step
C15_Witness ==
    /\ ev.op = "text" /\ ev.m = UnparsedModel
    /\ active_sessions[ev.sid].mode = "tutoring"
    /\ out.kind = "step"

\* C16: constructing a SessionManager deletes every session file last
\* modified more than 24 hours ago and leaves every other session file in
\* place with its content.
C16_ConstructionPurgesOldFiles ==
    [][ev'.op = "construct"
         => \A sid \in DOMAIN disk :
              IF now - arg[sid] > 24 * 3600
              THEN sid \notin DOMAIN disk'
              ELSE sid \in DOMAIN disk' /\ disk'[sid] = disk[sid] /\ arg'[sid] = arg[sid]]_vars

\* the first construction deleted one file and kept one modified exactly 24
\* hours before
C16_Witness ==
    /\ ev.op = "construct" /\ used.turns = 1
    /\ "s1" \notin DOMAIN disk
    /\ "s2" \in DOMAIN disk /\ now - arg["s2"] = 24 * 3600

\* the creation time of a session the store knows
C17_Created(sid) ==
    IF sid \in DOMAIN active_sessions THEN active_sessions[sid].start_time ELSE disk[sid].start_time

\* C17: get_session never returns a session created 24 hours or more ago,
\* whether it is cached or only on disk, ended or not.
C17_ExpiredSessionNotReturned ==
    [][\A sid \in StoreIds :
         (/\ ev'.op = "get" /\ ev'.sid = sid
          /\ sid \in DOMAIN active_sessions \/ sid \in DOMAIN disk
          /\ now - C17_Created(sid) >= 24 * 3600)
         => res' = FALSE]_vars

\* the session whose report was generated last
C18_Reported == active_sessions[ev.sid]

C18_InTimeline(peak, timeline) ==
    peak # << >> /\ \E i \in 1..Len(timeline) : timeline[i] = peak[1]

\* C18 as stated: the report of a session with an empty biometric_timeline
\* has peak_confidence_frame null, and the report of a session with a
\* non-empty timeline has a peak frame that is a member of the timeline.
C18_PeakFrameOfEveryReport ==
    ev.op = "report"
    => IF C18_Reported.biometric_timeline = << >>
       THEN res.peak_confidence_frame = << >>
       ELSE C18_InTimeline(res.peak_confidence_frame, C18_Reported.biometric_timeline)

\* C18, amended: the report of a session with an empty biometric_timeline has
\* peak_confidence_frame null; with a non-empty timeline the peak frame of a
\* tutoring or free-form session is a member of the timeline, and the report
\* of an interview or public-speaking session has peak_confidence_frame null.
C18_PeakFrameByMode ==
    ev.op = "report"
    => IF C18_Reported.biometric_timeline = << >> \/ Staged(C18_Reported)
       THEN res.peak_confidence_frame = << >>
       ELSE C18_InTimeline(res.peak_confidence_frame, C18_Reported.biometric_timeline)

\* a tutoring report whose peak frame is the second of two frames
C18_Witness ==
    /\ ev.op = "report" /\ C18_Reported.mode = "tutoring"
    /\ Len(C18_Reported.biometric_timeline) = 2
    /\ res.peak_confidence_frame = << C18_Reported.biometric_timeline[2] >>
    /\ C18_Reported.biometric_timeline[1] # C18_Reported.biometric_timeline[2]

\* r is the text s split on its first colon into a command and a detail, both
\* trimmed, the detail empty when s has no colon
C19_SplitOnFirstColon(s, r) ==
    IF \E i \in 1..Len(s) : s[i] = ":"
    THEN \E i \in 1..Len(s) :
           /\ s[i] = ":" /\ \A j \in 1..(i - 1) : s[j] # ":"
           /\ r.command = Strip(Slice(s, 1, i - 1))
           /\ r.detail = Strip(Slice(s, i + 1, Len(s)))
    ELSE r.command = Strip(s) /\ r.detail = << >>

\* C19 as stated: a string that begins with the DRAW_ prefix gives the
\* directive of its split on the first colon; a string that does not begin
\* with the prefix, or an empty value, gives no directive.
C19_DirectiveIffPrefixed ==
    pc = "done"
    => IF StartsWith(arg, DrawPrefix)
       THEN res.ok /\ C19_SplitOnFirstColon(arg, res)
       ELSE ~res.ok

\* C19, amended: a string that begins with the DRAW_ prefix once its
\* surrounding white space is trimmed gives the directive of its split on the
\* first colon; any other string, or an empty value, gives no directive.
C19_DirectiveIffPrefixedOnceTrimmed ==
    pc = "done"
    => IF StartsWith(Strip(arg), DrawPrefix)
       THEN res.ok /\ C19_SplitOnFirstColon(arg, res)
       ELSE ~res.ok

\* a directive whose detail was trimmed and holds the second colon
C19_Witness ==
    /\ pc = "done" /\ res.ok
    /\ arg = DrawPrefix \o << ":", " ", ":" >>
    /\ res.command = DrawPrefix /\ res.detail = << ":" >>

\* C20: a step of the handling of an event for one session (a text or
\* transcript turn up to the call of the model, its completion, a biometric
\* frame, an end) leaves the cached and the saved record of every other
\* session unchanged, also while a turn of that other session awaits the model.
C20_SessionsIndependent ==
    [][\A b \in PairIds :
         ev'.sid # b => active_sessions'[b] = active_sessions[b] /\ disk'[b] = disk[b]]_vars

\* a turn of session a completed while a turn of session b awaited the
\* model, and session b holds what its own turn wrote
C20_Witness ==
    /\ ev.op = "reply" /\ ev.sid = "a"
    /\ pc["b"] = "awaiting"
    /\ Len(active_sessions["a"].interactions) > Len(active_sessions["b"].interactions)
    /\ Len(active_sessions["b"].interactions) = 1

\* C21: when two turns of one session overlap, neither turn's update is lost:
\* once both turns have surfaced a question, question_count has grown by two.
C21_OverlappingTurnsBothCount ==
    (/\ \A k \in OverlapTurns : pc[k] = "done" /\ arg[k].surfaced)
    => \A sid \in DOMAIN active_sessions : active_sessions[sid].interview_state.question_count = res + 2

\* the place of a stage in the order init, role, job_desc, resume, ready, interview
StageRank(stage) ==
    CASE stage = "init" -> 0 [] stage = "role" -> 1 [] stage = "job_desc" -> 2
      [] stage = "resume" -> 3 [] stage = "ready" -> 4 [] OTHER -> 5

\* C22: the interview stage only moves forward along init, role, job_desc,
\* resume, ready, interview: no inbound text moves it to an earlier stage.
C22_StageOnlyMovesForward ==
    [][\A sid \in DOMAIN active_sessions :
         ev'.op \in {"text", "audio"} =>
           StageRank(active_sessions'[sid].interview_state.stage)
             >= StageRank(active_sessions[sid].interview_state.stage)]_vars

\* the answers a candidate gives to a question, typed or spoken
AnswerTexts == {TxtYes, TxtNo, TxtUm}

IsHint(response) == response = _interview_prompt(Str("Hint"))

\* a session at a technical question whose answer will be evaluated
AtTechnicalQuestion(s, t) ==
    s.stage = "interview" /\ s.current_section = "technical" /\ ~_should_end_interview(s, t)

\* the turn from state s to state s2 with the given response asked the next
\* question or ended the interview
Advanced(s, s2, response) ==
    response.type = "session_ended" \/ s2.question_count = s.question_count + 1

\* C23: at a technical question an answer evaluated weak (in time, see C24)
\* with no hint given yet is answered with the hint; a turn that emits the
\* hint keeps question_count and current_question and is the only one to do
\* so for its question; the answer that follows a hint advances to the next
\* question or ends the interview.
C23_WeakAnswerGetsOneHint ==
    [][\A sid \in DOMAIN active_sessions :
         (/\ ev'.op \in {"text", "audio"} /\ ev'.text \in AnswerTexts
          /\ AtTechnicalQuestion(active_sessions[sid].interview_state, now))
         => /\ \A q \in QuestionOutputs, e \in EvaluationOutputs :
                 HintDue(active_sessions[sid].interview_state, ev'.text, now, e)
                 => IsHint(_handle_interview_flow(World(sid), ev'.text, now, q, e).response)
            /\ IsHint(out') =>
                 /\ ~active_sessions[sid].interview_state.hint_used
                 /\ active_sessions'[sid].interview_state.hint_used
                 /\ active_sessions'[sid].interview_state.question_count
                      = active_sessions[sid].interview_state.question_count
                 /\ active_sessions'[sid].interview_state.current_question
                      = active_sessions[sid].interview_state.current_question
            /\ active_sessions[sid].interview_state.hint_used =>
                 Advanced(active_sessions[sid].interview_state, active_sessions'[sid].interview_state, out')]_vars

\* C24: an interview answer that arrives more than 90 seconds after its
\* question was posed gets no hint: the turn asks the next question or ends
\* the interview, whatever the evaluation and the hint flag.
C24_LateAnswerAlwaysAdvances ==
    [][\A sid \in DOMAIN active_sessions :
         (/\ ev'.op \in {"text", "audio"} /\ ev'.text \in AnswerTexts
          /\ active_sessions[sid].interview_state.stage = "interview"
          /\ active_sessions[sid].interview_state.last_question_time # NoTime
          /\ now - active_sessions[sid].interview_state.last_question_time > HintTimeout)
         => /\ ~IsHint(out')
            /\ Advanced(active_sessions[sid].interview_state, active_sessions'[sid].interview_state, out')]_vars

\* round(3 * (1 - s)) for a sensitivity s given in tenths (the one tie, 1.5
\* at s = 0.5, rounds to the even 2)
RoundedThreshold(sensitivity) == Max2(1, (3 * (10 - sensitivity) + 5) \div 10)

\* C25: for every sensitivity s in [0,1] the threshold the detector compares
\* the number of raised triggers with is max(1, round(3 * (1 - s))).
C25_ThresholdIsRounded ==
    pc = "done" => BargeThreshold(arg.sensitivity) = RoundedThreshold(arg.sensitivity)

\* C26: in an interview session and in a public-speaking session no text or
\* transcript turn yields a barge_in response or a barge_in entry of
\* interactions.
C26_NoBargeInWhenStaged ==
    \A sid \in DOMAIN active_sessions :
      Staged(active_sessions[sid]) =>
        /\ out.type # "barge_in"
        /\ \A k \in 1..Len(active_sessions[sid].interactions) :
             active_sessions[sid].interactions[k].type # "barge_in"

\* C27: a turn on which barge-in triggers short-circuits: whatever the model
\* would answer, the session it leaves is the one the trigger alone
\* determines (no inference call is made) and it is saved,
\* it appends exactly one entry, of type barge_in, to interactions, its
\* response is a barge_in that carries the detector's trigger, and
\* tutoring_step and both mode sub-states are left unchanged.
C27_BargeInShortCircuits ==
    [][\A sid \in DOMAIN active_sessions :
         (ev'.op = "audio" /\ out'.type = "barge_in")
         => /\ active_sessions'[sid] = _handle_barge_in(World(sid), out'.trigger).w.mem
            /\ disk'[sid] = active_sessions'[sid]
            /\ active_sessions'[sid].interactions
                 = Append(active_sessions[sid].interactions,
                          Interaction("barge_in", "assistant", out'.voice_text))
            /\ out'.trigger # NoTrigger
            /\ out'.trigger = should_trigger(ev'.text, get_latest_biometric(active_sessions[sid]),
                                             active_sessions[sid].barge_in_sensitivity)
            /\ active_sessions'[sid].tutoring_step = active_sessions[sid].tutoring_step
            /\ active_sessions'[sid].interview_state = active_sessions[sid].interview_state
            /\ active_sessions'[sid].public_speaking_state = active_sessions[sid].public_speaking_state]_vars

\* a transcript turn was answered with a barge-in raised by several signals
C27_Witness ==
    \E sid \in DOMAIN active_sessions :
      /\ ev.op = "audio" /\ out.type = "barge_in"
      /\ out.trigger.trigger_type = "combined"
      /\ Len(active_sessions[sid].interactions) > 1
      /\ active_sessions[sid].interactions[Len(active_sessions[sid].interactions)].type = "barge_in"

IsAnswerTurn(event) == event.op \in {"text", "audio"} /\ ~IsCommand(event.text)

\* the utterance force-ends the session: a completion token, or the time cap
ForcedEnd(s, text, t) ==
    \/ _is_public_speaking_done(Lower(Strip(text)))
    \/ s.start_time # NoTime /\ t - s.start_time >= SpeakingMinutes * 60

\* the turn from state s to state s2 asked the follow-up question of the index
AskedFollowup(s2, response, index) ==
    /\ s2.stage = "followup" /\ s2.followup_index = index
    /\ response.type = "coach_response"
    /\ response.voice_text = Str(_followup_question(index))

\* followup_index is below followup_total and changes only on an answer
\* handled in the main or followup stage
FollowupIndexKept(s, s2, event, t) ==
    /\ s.followup_index < s.followup_total /\ s2.followup_index < s2.followup_total
    /\ s2.followup_index # s.followup_index =>
         IsAnswerTurn(event) /\ ~ForcedEnd(s, event.text, t) /\ s.stage \in {"main", "followup"}

\* C29 as stated: the answer to the main speech asks follow-up 0, the answer
\* to follow-up 0 asks follow-up 1, the answer to follow-up 1 asks follow-up
\* 2 and the answer to follow-up 2 ends the session; followup_index stays
\* below followup_total.
C29_ThreeFollowupsThenEnd ==
    [][\A sid \in DOMAIN active_sessions :
         /\ FollowupIndexKept(active_sessions[sid].public_speaking_state,
                              active_sessions'[sid].public_speaking_state, ev', now)
         /\ IsAnswerTurn(ev') =>
              /\ active_sessions[sid].public_speaking_state.stage = "main"
                 => AskedFollowup(active_sessions'[sid].public_speaking_state, out', 0)
              /\ (/\ active_sessions[sid].public_speaking_state.stage = "followup"
                  /\ active_sessions[sid].public_speaking_state.followup_index < 2)
                 => AskedFollowup(active_sessions'[sid].public_speaking_state, out',
                                  active_sessions[sid].public_speaking_state.followup_index + 1)
              /\ (/\ active_sessions[sid].public_speaking_state.stage = "followup"
                  /\ active_sessions[sid].public_speaking_state.followup_index = 2)
                 => out'.type = "session_ended"]_vars

\* C29, amended: an answer that carries a completion token or comes after
\* the time cap ends the session; any other answer to the main speech asks
\* follow-up 0, to follow-up 0 asks follow-up 1, to follow-up 1 asks
\* follow-up 2; every answer to follow-up 2 ends the session; followup_index
\* stays below followup_total.
C29_ThreeFollowupsUnlessForcedEnd ==
    [][\A sid \in DOMAIN active_sessions :
         /\ FollowupIndexKept(active_sessions[sid].public_speaking_state,
                              active_sessions'[sid].public_speaking_state, ev', now)
         /\ IsAnswerTurn(ev') =>
              IF ForcedEnd(active_sessions[sid].public_speaking_state, ev'.text, now)
              THEN /\ out'.type = "session_ended"
                   /\ active_sessions'[sid].public_speaking_state = active_sessions[sid].public_speaking_state
              ELSE /\ active_sessions[sid].public_speaking_state.stage = "main"
                      => AskedFollowup(active_sessions'[sid].public_speaking_state, out', 0)
                   /\ (/\ active_sessions[sid].public_speaking_state.stage = "followup"
                       /\ active_sessions[sid].public_speaking_state.followup_index < 2)
                      => AskedFollowup(active_sessions'[sid].public_speaking_state, out',
                                       active_sessions[sid].public_speaking_state.followup_index + 1)
                   /\ (/\ active_sessions[sid].public_speaking_state.stage = "followup"
                       /\ active_sessions[sid].public_speaking_state.followup_index = 2)
                      => out'.type = "session_ended"]_vars

\* the third follow-up was answered and the session ended
C29_Witness ==
    \E sid \in DOMAIN active_sessions :
      /\ IsAnswerTurn(ev) /\ ~_is_public_speaking_done(Lower(Strip(ev.text)))
      /\ out.type = "session_ended"
      /\ active_sessions[sid].public_speaking_state.stage = "followup"
      /\ active_sessions[sid].public_speaking_state.followup_index = 2
      /\ active_sessions[sid].end_time # NoTime
      /\ now = 0

\* the three speech counters of a public-speaking state
Counters(s) == << s.word_count, s.filler_count, s.pause_count >>

\* C30: word_count, filler_count and pause_count never decrease; a turn
\* whose text is an utterance handled in the main or followup stage grows
\* each by the count of that utterance, and no other event (a
\* BEGIN_PUBLIC_SPEAKING command included) changes them.
C30_CountersGrowByEveryUtterance ==
    [][\A sid \in DOMAIN active_sessions :
         /\ \A k \in 1..3 : Counters(active_sessions'[sid].public_speaking_state)[k]
                              >= Counters(active_sessions[sid].public_speaking_state)[k]
         /\ IF /\ IsAnswerTurn(ev')
               /\ active_sessions[sid].public_speaking_state.stage \in {"main", "followup"}
            THEN Counters(active_sessions'[sid].public_speaking_state)
                   = Counters(_update_public_speaking_metrics(active_sessions[sid].public_speaking_state,
                                                              Strip(ev'.text)))
            ELSE Counters(active_sessions'[sid].public_speaking_state)
                   = Counters(active_sessions[sid].public_speaking_state)]_vars

\* the completion tokens
CompletionTokens ==
    { << "d", "o", "n", "e" >>, << "t", "h", "a", "n", "k", "s" >>,
      << "f", "i", "n", "i", "s", "h", "e", "d" >>, << "e", "n", "d" >> }

\* C31: at every stage of a public-speaking session, an utterance that
\* arrives 15 minutes or more after start_time, or that contains a
\* completion token, ends the session and returns session_ended.
C31_ForcedEndAtEveryStage ==
    [][\A sid \in DOMAIN active_sessions :
         (/\ IsAnswerTurn(ev')
          /\ \/ \E token \in CompletionTokens : Contains(Lower(Strip(ev'.text)), token)
             \/ /\ active_sessions[sid].public_speaking_state.start_time # NoTime
                /\ now - active_sessions[sid].public_speaking_state.start_time >= 15 * 60)
         => /\ out'.type = "session_ended"
            /\ active_sessions'[sid].end_time = now
            /\ disk'[sid].end_time = now]_vars

\* a speech that carries no completion token came after the time cap and
\* ended the session
C31_Witness ==
    \E sid \in DOMAIN active_sessions :
      /\ IsAnswerTurn(ev) /\ ev.text = TxtPitch
      /\ now >= 15 * 60
      /\ active_sessions[sid].public_speaking_state.start_time = 0
      /\ out.type = "session_ended"
      /\ active_sessions[sid].end_time = now

\* the place of a stage in the order init, type, topic, script, ready,
\* warmup, main, followup
SpeakingStageRank(stage) ==
    CASE stage = "init" -> 0 [] stage = "type" -> 1 [] stage = "topic" -> 2
      [] stage = "script" -> 3 [] stage = "ready" -> 4 [] stage = "warmup" -> 5
      [] stage = "main" -> 6 [] OTHER -> 7

\* C32: the public-speaking stage only moves forward along init, type,
\* topic, script, ready, warmup, main, followup: no inbound text moves it to
\* an earlier stage.
C32_SpeakingStageOnlyMovesForward ==
    [][\A sid \in DOMAIN active_sessions :
         ev'.op \in {"text", "audio"} =>
           SpeakingStageRank(active_sessions'[sid].public_speaking_state.stage)
             >= SpeakingStageRank(active_sessions[sid].public_speaking_state.stage)]_vars

IsUserEntry(entry) == entry.role = "user"

\* the point a user turn gives (empty: none)
PointOf(entry) == NormalizedPoint(Collapse(entry.content))

\* the turn at place i of the user turns is chosen when discovery runs from
\* the most recent turn backwards: it gives a point, no later turn gives the
\* same point, and fewer than four points are given by later turns
ChosenFromEnd(turns, i) ==
    /\ PointOf(turns[i]) # << >>
    /\ \A j \in (i + 1)..Len(turns) : PointOf(turns[j]) # PointOf(turns[i])
    /\ Cardinality({ PointOf(turns[j]) : j \in (i + 1)..Len(turns) } \ { << >> }) < 4

\* the points of the chosen turns in the order of the turns
RECURSIVE ChosenPoints(_, _)
ChosenPoints(turns, i) ==
    IF i > Len(turns) THEN << >>
    ELSE (IF ChosenFromEnd(turns, i) THEN << PointOf(turns[i]) >> ELSE << >>) \o ChosenPoints(turns, i + 1)

\* C33: discussion_points has at most 4 entries, no duplicates, each of at
\* most 140 characters; they are the points of the last 30 user turns of
\* context_history, chosen from the most recent turn backwards, and they are
\* listed in an order in which their turns occur.
C33_PointsAreMostRecent ==
    pc = "done" =>
      /\ Len(res) <= 4
      /\ \A i, j \in 1..Len(res) : i # j => res[i] # res[j]
      /\ \A i \in 1..Len(res) : Len(res[i]) <= 140
      /\ { res[i] : i \in 1..Len(res) }
           = { ChosenPoints(LastN(SelectSeq(arg, IsUserEntry), 30), 1)[i] :
                 i \in 1..Len(ChosenPoints(LastN(SelectSeq(arg, IsUserEntry), 30), 1)) }
      /\ \A i, j \in 1..Len(res) :
           i < j => \E p, q \in 1..Len(arg) :
                      /\ p < q /\ IsUserEntry(arg[p]) /\ IsUserEntry(arg[q])
                      /\ PointOf(arg[p]) = res[i] /\ PointOf(arg[q]) = res[j]

\* C34: a biometric frame is appended as the one new last frame of its
\* session's biometric_timeline, the latest-frame read then returns it, and
\* context_history, interactions, tutoring_step and both mode sub-states of
\* the session, and every other session, are left as they were, also while
\* a turn of the session is suspended at its inference call.
C34_FrameOnlyExtendsTimeline ==
    [][ev'.op = "biometric" =>
         /\ \E frame \in SessionFrames :
              /\ active_sessions'[ev'.sid].biometric_timeline
                   = Append(active_sessions[ev'.sid].biometric_timeline, frame)
              /\ get_latest_biometric(active_sessions'[ev'.sid]) = frame
         /\ active_sessions'[ev'.sid].context_history = active_sessions[ev'.sid].context_history
         /\ active_sessions'[ev'.sid].interactions = active_sessions[ev'.sid].interactions
         /\ active_sessions'[ev'.sid].tutoring_step = active_sessions[ev'.sid].tutoring_step
         /\ active_sessions'[ev'.sid].interview_state = active_sessions[ev'.sid].interview_state
         /\ active_sessions'[ev'.sid].public_speaking_state = active_sessions[ev'.sid].public_speaking_state
         /\ \A sid \in PairIds \ {ev'.sid} : active_sessions'[sid] = active_sessions[sid]
         /\ pc' = pc]_vars

\* a second frame arrived while a text turn of its session awaits the model
C34_Witness ==
    /\ ev.op = "biometric"
    /\ pc[ev.sid] = "awaiting"
    /\ Len(active_sessions[ev.sid].biometric_timeline) = 2
    /\ Len(active_sessions[ev.sid].interactions) = 1

\* C35: a session's mode never changes, and a text or transcript turn
\* leaves the sub-states of the other modes as they were: a tutoring or
\* free-form turn interview_state and public_speaking_state, an interview
\* turn public_speaking_state and tutoring_step, a public-speaking turn
\* interview_state and tutoring_step.
C35_TurnKeepsOtherModes ==
    [][\A sid \in DOMAIN active_sessions :
         /\ active_sessions'[sid].mode = active_sessions[sid].mode
         /\ ev'.op \in {"text", "audio"} =>
              /\ active_sessions[sid].mode # "interview"
                 => active_sessions'[sid].interview_state = active_sessions[sid].interview_state
              /\ active_sessions[sid].mode # "public_speaking"
                 => active_sessions'[sid].public_speaking_state = active_sessions[sid].public_speaking_state
              /\ Staged(active_sessions[sid])
                 => active_sessions'[sid].tutoring_step = active_sessions[sid].tutoring_step]_vars

\* an interview turn surfaced a question and left the other modes' state new
C35_Witness ==
    \E sid \in DOMAIN active_sessions :
      /\ ev.op = "text" /\ active_sessions[sid].mode = "interview"
      /\ active_sessions[sid].interview_state.question_count > 0
      /\ out.voice_text = active_sessions[sid].interview_state.current_question
      /\ active_sessions[sid].public_speaking_state = NewPublicSpeakingState
      /\ active_sessions[sid].tutoring_step = 0

\* C36: whenever a turn, a biometric-frame event or a session end returns,
\* the persisted record of the session equals its in-memory state
C36_EventPersistsSession ==
    [][\A sid \in DOMAIN active_sessions :
         (ev'.sid = sid /\ ev'.op \in {"text", "audio", "biometric", "end"})
             => disk'[sid] = active_sessions'[sid]]_vars

\* C37: in every reachable state of an interview session question_count is
\* at most max_questions (10) and equals the number of interview questions
\* surfaced to the user so far
C37_QuestionCountCountsQuestions ==
    \A sid \in DOMAIN active_sessions :
      /\ active_sessions[sid].interview_state.max_questions = MaxQuestions
      /\ active_sessions[sid].interview_state.question_count <= MaxQuestions
      /\ active_sessions[sid].interview_state.question_count = res

\* the tenth question was surfaced and the answer to it ended the interview
C37_Witness ==
    \E sid \in DOMAIN active_sessions :
      /\ res = MaxQuestions
      /\ active_sessions[sid].interview_state.question_count = MaxQuestions
      /\ ev.op = "text" /\ out.type = "session_ended"

\* the answers within which an interview ends: one to each of the ten
\* questions and one more to each hint of the four technical questions
AnswersToEnd == MaxQuestions + 4

\* C38: once the first question is surfaced and while no BEGIN_INTERVIEW
\* command arrives, the fourteenth answer of the user at the latest (typed
\* or spoken) is answered with session_ended
C38_InterviewEndsWithinAnswers ==
    [][\A sid \in DOMAIN active_sessions :
         (/\ ev'.sid = sid /\ ev'.op \in {"text", "audio"}
          /\ IsAnswer(active_sessions[sid].interview_state, ev'.text)
          /\ pc' = "session"
          /\ arg' >= AnswersToEnd)
             => out'.type = "session_ended"]_vars

\* C39: the barge_in_count of a generated report equals the number of
\* barge-in responses issued during the session, in every mode and whether
\* or not the interactions were compressed
C39_ReportCountsBargeIns ==
    [][out'.type = "session_ended" => arg' = res']_vars

Unknown(sid) == sid \notin DOMAIN active_sessions /\ sid \notin DOMAIN disk

\* C40: an operation called with a session id that is neither cached nor
\* stored changes no session and creates none; process_text and
\* process_audio return an error value, get_latest_biometric returns
\* nothing, and the other operations return silently
C40_UnknownIdIsNoOp ==
    [][\A sid \in CallerIds :
         (ev'.sid = sid /\ Unknown(sid))
             => /\ active_sessions' = active_sessions /\ disk' = disk
                /\ ev'.op \in {"text", "audio"} => out' = SessionNotFound(sid)
                /\ ev'.op \notin {"text", "audio"} => out' = NoResponse
                /\ ev'.op = "latest" => res' = NoBiometric]_vars

\* a turn with an unknown id was answered with the error while a cached
\* session holds a biometric frame
C40_Witness ==
    \E sid \in CallerIds :
      /\ Unknown(sid) /\ ev.sid = sid /\ ev.op = "text" /\ out.type = "error"
      /\ \E known \in DOMAIN active_sessions : active_sessions[known].biometric_timeline # << >>

====
